---- MODULE Spec2Model ----
(***************************************************************************)
(* One analysis cycle of the DeFi risk engine (workflows/analyse.ts,       *)
(* runAnalysis) with the services it calls: the PriceFeed with its         *)
(* CoinGecko -> CoinCap failover, the retry schedule, the bounded          *)
(* concurrent historical fetch, the pure risk calculations, the history    *)
(* store and the alert notifier.                                           *)
(*                                                                         *)
(* Numbers are exact rationals <<n, d>> (d > 0, lowest terms).  The only   *)
(* irrational operation of the code, Math.sqrt, is rounded up to 1/100.    *)
(* Alert messages (strings formatted from value and threshold) are not     *)
(* carried: an alert is its level, metric, value and threshold.            *)
(***************************************************************************)
EXTENDS Integers, Sequences, FiniteSets, TLC

\* ------------------------------------------------------------------------
\* Bounds of the model
\* ------------------------------------------------------------------------
MaxHoldings == 2        \* longest portfolio
MaxRetriesBound == 1    \* largest configured MAX_RETRIES
MaxConcurrency == 2     \* largest configured PRICE_FEED_CONCURRENCY
MaxCapacity == 2        \* largest maxTokens a rate limiter is made with
MaxCallers == 2         \* fibers sharing one rate limiter
MaxCalls == 2           \* acquire() calls each of them makes
MaxCycles == 3          \* cycles the monitoring mode is followed through
MaxSaves == 102         \* results written to one history file
MaxSeries == 4          \* longest price series handed to calculateDailyReturns

\* ------------------------------------------------------------------------
\* Exact rational arithmetic (JS numbers without rounding)
\* ------------------------------------------------------------------------
\* an operator applied to the VALUES of its arguments: TLC evaluates an
\* operator's argument anew at each use when it evaluates ENABLED, so nested
\* and recursive calls go through these
Eval1(Op(_), a) == CHOOSE r \in {Op(x) : x \in {a}} : TRUE
Eval2(Op(_, _), a, b) == CHOOSE r \in {Op(x, y) : x \in {a}, y \in {b}} : TRUE
Eval3(Op(_, _, _), a, b, c) ==
    CHOOSE r \in {Op(x, y, z) : x \in {a}, y \in {b}, z \in {c}} : TRUE

Abs(x) == IF x < 0 THEN -x ELSE x

RECURSIVE GCD(_, _)
GCD(a, b) == IF b = 0 THEN a ELSE Eval2(GCD, b, a % b)

Rat(n, d) ==
    Eval2(LAMBDA x, y :
            Eval1(LAMBDA g : IF x = 0 THEN <<0, 1>>
                             ELSE IF y < 0 THEN <<(-x) \div g, (-y) \div g>>
                             ELSE <<x \div g, y \div g>>,
                  GCD(Abs(x), Abs(y))),
          n, d)

Zero == <<0, 1>>
One == <<1, 1>>
FromInt(i) == <<i, 1>>

RAdd(a, b) ==
    Eval2(LAMBDA x, y :
            Eval1(LAMBDA g : Rat(x[1] * (y[2] \div g) + y[1] * (x[2] \div g),
                                 (x[2] \div g) * y[2]),
                  GCD(x[2], y[2])),
          a, b)
RNeg(a) == Eval1(LAMBDA x : <<-x[1], x[2]>>, a)
RSub(a, b) == RAdd(a, RNeg(b))
RMul(a, b) ==
    Eval2(LAMBDA x, y :
            Eval2(LAMBDA u, v : Rat(u[1] * v[1], u[2] * v[2]),
                  Rat(x[1], y[2]), Rat(y[1], x[2])),
          a, b)
RInv(a) == Eval1(LAMBDA x : IF x[1] < 0 THEN <<-x[2], -x[1]>> ELSE <<x[2], x[1]>>, a)
RDiv(a, b) == RMul(a, RInv(b))
RLt(a, b) == Eval2(LAMBDA x, y : x[1] * y[2] < y[1] * x[2], a, b)
RGt(a, b) == RLt(b, a)
RLe(a, b) == ~RLt(b, a)

RECURSIVE RSumTo(_, _)
RSumTo(s, n) == IF n = 0 THEN Zero ELSE RAdd(Eval2(RSumTo, s, n - 1), s[n])

\* values.reduce((sum, v) => sum + v, 0)
RSum(s) == Eval1(LAMBDA t : RSumTo(t, Len(t)), s)

\* smallest x with x * x >= n, searched in lo..hi
RECURSIVE CeilSqrtIn(_, _, _)
CeilSqrtIn(n, lo, hi) ==
    IF lo >= hi THEN lo
    ELSE Eval1(LAMBDA mid : IF mid * mid >= n THEN CeilSqrtIn(n, lo, mid)
                            ELSE Eval3(CeilSqrtIn, n, mid + 1, hi),
               (lo + hi) \div 2)

\* Math.sqrt, rounded up to a multiple of 1/100 (0 exactly for 0)
RSqrt(a) ==
    Eval1(LAMBDA x : Rat(CeilSqrtIn((x[1] * 10000 + x[2] - 1) \div x[2], 0, 46340), 100),
          a)

\* a sequence given by a rule, with its elements worked out
Elements(s) == s \o <<>>

\* ------------------------------------------------------------------------
\* domain/risk.ts : pure calculations
\* ------------------------------------------------------------------------
Z_95 == <<329, 200>>
Z_99 == <<1163, 500>>
TRADING_DAYS_PER_YEAR == 365
RISK_FREE_RATE == <<9, 200>>

DEFAULT_THRESHOLDS ==
    [varPctWarning |-> <<3, 100>>, varPctCritical |-> <<1, 20>>,
     volWarning |-> <<3, 5>>, volCritical |-> <<4, 5>>,
     hhiWarning |-> <<7, 20>>, hhiCritical |-> <<1, 2>>,
     drawdownCritical |-> <<3, 20>>]

\* new Map(entries).get(id): the LAST entry of a repeated key is the one kept
LastIndexOf(seq, id) ==
    LET hits == {i \in 1..Len(seq) : seq[i].coinGeckoId = id}
    IN  IF hits = {} THEN 0 ELSE CHOOSE i \in hits : \A j \in hits : j <= i

\* weights taken from the amounts held instead of their value
valuatePortfolioByAmount(holdings, prices) ==
    LET valued == [i \in 1..Len(holdings) |->
            LET h == holdings[i]
                k == LastIndexOf(prices, h.coinGeckoId)
                priceUsd == IF k = 0 THEN 0 ELSE prices[k].priceUsd
            IN  [symbol |-> h.symbol, coinGeckoId |-> h.coinGeckoId,
                 amount |-> h.amount, valueUsd |-> h.amount * priceUsd,
                 weight |-> Zero, price |-> priceUsd,
                 change24h |-> IF k = 0 THEN 0 ELSE prices[k].change24h]]
        totalValueUsd == RSum([i \in 1..Len(valued) |-> FromInt(valued[i].valueUsd)])[1]
        totalAmount == RSum([i \in 1..Len(valued) |-> FromInt(valued[i].amount)])[1]
    IN  [totalValueUsd |-> totalValueUsd,
         holdings |-> [i \in 1..Len(valued) |->
            [valued[i] EXCEPT !.weight =
                IF totalValueUsd > 0 THEN Rat(valued[i].amount, totalAmount)
                ELSE Zero]]]

valuatePortfolio(holdings, prices) ==
    LET valued == [i \in 1..Len(holdings) |->
            LET h == holdings[i]
                k == LastIndexOf(prices, h.coinGeckoId)
                priceUsd == IF k = 0 THEN 0 ELSE prices[k].priceUsd
            IN  [symbol |-> h.symbol, coinGeckoId |-> h.coinGeckoId,
                 amount |-> h.amount, valueUsd |-> h.amount * priceUsd,
                 weight |-> Zero, price |-> priceUsd,
                 change24h |-> IF k = 0 THEN 0 ELSE prices[k].change24h]]
        totalValueUsd == RSum([i \in 1..Len(valued) |-> FromInt(valued[i].valueUsd)])[1]
    IN  [totalValueUsd |-> totalValueUsd,
         holdings |-> [i \in 1..Len(valued) |->
            [valued[i] EXCEPT !.weight =
                IF totalValueUsd > 0 THEN Rat(valued[i].valueUsd, totalValueUsd)
                ELSE Zero]]]

RECURSIVE calculateDailyReturnsFrom(_, _)
calculateDailyReturnsFrom(prices, i) ==
    IF i > Len(prices) THEN <<>>
    ELSE (IF prices[i - 1] > 0
          THEN <<Rat(prices[i] - prices[i - 1], prices[i - 1])>>
          ELSE <<>>) \o calculateDailyReturnsFrom(prices, i + 1)

\* a loop that starts one pair late
calculateDailyReturnsLate(prices) == calculateDailyReturnsFrom(prices, 3)

calculateDailyReturns(prices) == calculateDailyReturnsFrom(prices, 2)

\* a loop that stops one return before the shortest series ends
SeqMinButOne(lens) ==
    Eval1(LAMBDA ls :
            LET m == CHOOSE n \in {ls[i] : i \in 1..Len(ls)} :
                         \A i \in 1..Len(ls) : n <= ls[i]
            IN  IF m > 0 THEN m - 1 ELSE 0,
          lens)

SeqMin(lens) ==
    Eval1(LAMBDA ls : CHOOSE m \in {ls[i] : i \in 1..Len(ls)} :
                          \A i \in 1..Len(ls) : m <= ls[i],
          lens)

calculatePortfolioReturns(historicalPrices, holdings) ==
    LET weightOf(id) ==
            LET k == LastIndexOf(holdings, id)
            IN  IF k = 0 THEN Zero ELSE holdings[k].weight
    IN  Eval1(LAMBDA returnsByToken :
            IF Len(returnsByToken) = 0 THEN <<>>
            ELSE Eval1(LAMBDA minLength :
                    IF minLength = 0 THEN <<>>
                    ELSE Elements([i \in 1..minLength |->
                            RSum([t \in 1..Len(returnsByToken) |->
                                RMul(weightOf(returnsByToken[t].coinGeckoId),
                                     returnsByToken[t].returns[i])])]),
                    SeqMin(Elements([t \in 1..Len(returnsByToken) |->
                                        Len(returnsByToken[t].returns)]))),
            Elements([t \in 1..Len(historicalPrices) |->
                [coinGeckoId |-> historicalPrices[t].coinGeckoId,
                 returns |-> calculateDailyReturns(historicalPrices[t].dailyPrices)]]))

mean(values) ==
    IF Len(values) = 0 THEN Zero
    ELSE RDiv(RSum(values), FromInt(Len(values)))

standardDeviation(values) ==
    IF Len(values) < 2 THEN Zero
    ELSE Eval1(LAMBDA avg :
                LET squaredDiffs == [i \in 1..Len(values) |->
                        RMul(RSub(values[i], avg), RSub(values[i], avg))]
                IN  RSqrt(RDiv(RSum(squaredDiffs), FromInt(Len(values) - 1))),
               mean(values))

\* the loop of calculateMaxDrawdown from return i on, as [cumulative, peak, maxDD]
RECURSIVE drawdownLoop(_, _, _)
drawdownLoop(returns, i, st) ==
    IF i > Len(returns) THEN st
    ELSE LET cumulative == RMul(st.cumulative, RAdd(One, returns[i]))
             peak == IF RGt(cumulative, st.peak) THEN cumulative ELSE st.peak
             drawdown == RDiv(RSub(peak, cumulative), peak)
         IN  Eval3(drawdownLoop, returns, i + 1,
                [cumulative |-> cumulative, peak |-> peak,
                 maxDD |-> IF RGt(drawdown, st.maxDD) THEN drawdown ELSE st.maxDD])

calculateMaxDrawdown(returns) ==
    IF Len(returns) = 0 THEN Zero
    ELSE drawdownLoop(returns, 1,
            [cumulative |-> One, peak |-> One, maxDD |-> Zero]).maxDD

\* weight * 2 in place of weight ** 2
sumDoubledWeights(weights) ==
    RSum([i \in 1..Len(weights) |-> RMul(FromInt(2), weights[i].weight)])

\* weight in place of weight ** 2
sumOfWeights(weights) ==
    RSum([i \in 1..Len(weights) |-> weights[i].weight])

sumSquaredWeights(weights) ==
    RSum([i \in 1..Len(weights) |-> RMul(weights[i].weight, weights[i].weight)])

calculateRiskMetrics(portfolioValue, portfolioReturns, weights) ==
    Eval2(LAMBDA dailyVol, dailyMeanReturn :
        LET annualisedVol == RMul(dailyVol, RSqrt(FromInt(TRADING_DAYS_PER_YEAR)))
            annualisedReturn == RMul(dailyMeanReturn, FromInt(TRADING_DAYS_PER_YEAR))
        IN  [valueAtRisk95 |-> RMul(RMul(FromInt(portfolioValue), Z_95), dailyVol),
             valueAtRisk99 |-> RMul(RMul(FromInt(portfolioValue), Z_99), dailyVol),
             volatilityAnnualised |-> annualisedVol,
             sharpeRatio |-> IF RGt(dailyVol, Zero)
                             THEN RDiv(RSub(annualisedReturn, RISK_FREE_RATE),
                                       annualisedVol)
                             ELSE Zero,
             concentrationHHI |-> sumSquaredWeights(weights),
             maxDrawdown |-> calculateMaxDrawdown(portfolioReturns)],
        standardDeviation(portfolioReturns), mean(portfolioReturns))

Alert(level, metric, value, threshold) ==
    [level |-> level, metric |-> metric, value |-> value, threshold |-> threshold]

\* two independent ifs: a metric over both thresholds raises both alerts
metricAlertBoth(metric, value, critical, warning, hasWarning) ==
    (IF RGt(value, critical) THEN <<Alert("critical", metric, value, critical)>> ELSE <<>>)
        \o (IF hasWarning /\ RGt(value, warning)
            THEN <<Alert("warning", metric, value, warning)>> ELSE <<>>)

\* >= in place of >: a value at its threshold raises the alert
metricAlertAtThreshold(metric, value, critical, warning, hasWarning) ==
    IF ~RLt(value, critical) THEN <<Alert("critical", metric, value, critical)>>
    ELSE IF hasWarning /\ ~RLt(value, warning)
         THEN <<Alert("warning", metric, value, warning)>>
         ELSE <<>>

\* one metric's alert: critical checked first, else warning, else nothing
metricAlert(metric, value, critical, warning, hasWarning) ==
    IF RGt(value, critical) THEN <<Alert("critical", metric, value, critical)>>
    ELSE IF hasWarning /\ RGt(value, warning)
         THEN <<Alert("warning", metric, value, warning)>>
         ELSE <<>>

\* no early return on a portfolio worth nothing: VaR is then compared as it is
generateAlertsUnguarded(valuation, risk, thresholds) ==
    LET varPct == IF valuation.totalValueUsd = 0 THEN risk.valueAtRisk95
                  ELSE RDiv(risk.valueAtRisk95, FromInt(valuation.totalValueUsd))
    IN  metricAlert("VaR (95%)", varPct,
                    thresholds.varPctCritical, thresholds.varPctWarning, TRUE)
        \o metricAlert("Volatility", risk.volatilityAnnualised,
                       thresholds.volCritical, thresholds.volWarning, TRUE)
        \o metricAlert("Concentration", risk.concentrationHHI,
                       thresholds.hhiCritical, thresholds.hhiWarning, TRUE)
        \o metricAlert("Max Drawdown", risk.maxDrawdown,
                       thresholds.drawdownCritical, Zero, FALSE)

generateAlerts(valuation, risk, thresholds) ==
    IF valuation.totalValueUsd = 0 THEN <<>>
    ELSE LET varPct == RDiv(risk.valueAtRisk95, FromInt(valuation.totalValueUsd))
         IN  metricAlert("VaR (95%)", varPct,
                         thresholds.varPctCritical, thresholds.varPctWarning, TRUE)
             \o metricAlert("Volatility", risk.volatilityAnnualised,
                            thresholds.volCritical, thresholds.volWarning, TRUE)
             \o metricAlert("Concentration", risk.concentrationHHI,
                            thresholds.hhiCritical, thresholds.hhiWarning, TRUE)
             \o metricAlert("Max Drawdown", risk.maxDrawdown,
                            thresholds.drawdownCritical, Zero, FALSE)

\* ------------------------------------------------------------------------
\* Effect values: an effect either succeeds with a value or fails with an error
\* ------------------------------------------------------------------------
Succeed(v) == [ok |-> TRUE, value |-> <<v>>, error |-> <<>>]
Fail(e) == [ok |-> FALSE, value |-> <<>>, error |-> <<e>>]

PriceFeedError(reason) == [tag |-> "PriceFeedError", reason |-> reason]
StoreError(reason) == [tag |-> "StoreError", reason |-> reason]

\* ------------------------------------------------------------------------
\* Inputs of one cycle
\* ------------------------------------------------------------------------
CoinIds == {"bitcoin", "avalanche-2"}

HoldingPool ==
    {[symbol |-> "BTC", coinGeckoId |-> "bitcoin", amount |-> 1],
     [symbol |-> "AVAX", coinGeckoId |-> "avalanche-2", amount |-> 2]}

Portfolios ==
    UNION {[1..n -> HoldingPool] : n \in 0..MaxHoldings}

\* what CoinGecko can answer to a current-price request: quotes for some ids
MarketQuote ==
    ("bitcoin" :> [usd |-> 3, usd_24h_change |-> -2])
        @@ ("avalanche-2" :> [usd |-> 1, usd_24h_change |-> 1])

QuoteResponses == {CoinIds, {"bitcoin"}}

\* what CoinCap can answer: assets under its own ids, the numbers as strings
\* (<<n>>: a string that parseFloat reads as n), the change optional
CoinCapAssets ==
    ("bitcoin" :> [priceUsd |-> <<3>>, changePercent24Hr |-> <<-1>>])
        @@ ("avalanche" :> [priceUsd |-> <<1>>, changePercent24Hr |-> <<>>])

AssetResponses == {DOMAIN CoinCapAssets, {"bitcoin"}}

\* what a provider can answer to a historical request: daily prices
SeriesPool == {<<2, 1, 2>>, <<1, 2>>}

Outcomes == {"ok", "fetchFailed", "invalid"}

\* a response carries a payload only when the call and the decoding succeeded
PayloadsOf(outcome, payloads) ==
    IF outcome = "ok" THEN payloads ELSE {CHOOSE p \in payloads : TRUE}

Timestamps == {"2026-01-15T12:00:00.000Z"}

\* ------------------------------------------------------------------------
\* services/PriceFeed.ts
\* ------------------------------------------------------------------------
COINCAP_ID_MAP ==
    ("bitcoin" :> "bitcoin") @@ ("ethereum" :> "ethereum")
        @@ ("avalanche-2" :> "avalanche")

toCoinCapId(coinGeckoId) ==
    IF coinGeckoId \in DOMAIN COINCAP_ID_MAP THEN COINCAP_ID_MAP[coinGeckoId]
    ELSE coinGeckoId

\* outcome: what the HTTP call and the schema decoder did; present: the ids
\* the payload holds
coinGeckoGetPrices(coinIds, outcome, present) ==
    IF outcome = "fetchFailed"
    THEN Fail(PriceFeedError(<<"[CoinGecko] Failed to fetch current prices">>))
    ELSE IF outcome = "invalid"
    THEN Fail(PriceFeedError(<<"[CoinGecko] Invalid response format">>))
    ELSE Succeed([i \in 1..Len(coinIds) |->
            [coinGeckoId |-> coinIds[i],
             priceUsd |-> IF coinIds[i] \in present
                          THEN MarketQuote[coinIds[i]].usd ELSE 0,
             change24h |-> IF coinIds[i] \in present
                           THEN MarketQuote[coinIds[i]].usd_24h_change ELSE 0]])

\* parseFloat(s) || 0
parseFloatOrZero(s) == IF s = <<>> THEN 0 ELSE s[1]

\* the quotes of a CoinCap answer under the ids CoinCap gave them
coinCapGetPricesKeyedByCapId(coinIds, outcome, present) ==
    IF outcome = "fetchFailed"
    THEN Fail(PriceFeedError(<<"[CoinCap] Failed to fetch current prices">>))
    ELSE IF outcome = "invalid"
    THEN Fail(PriceFeedError(<<"[CoinCap] Invalid response format">>))
    ELSE Succeed([i \in 1..Len(coinIds) |->
            LET capId == toCoinCapId(coinIds[i])
            IN  [coinGeckoId |-> capId,
                 priceUsd |-> IF capId \in present
                              THEN parseFloatOrZero(CoinCapAssets[capId].priceUsd)
                              ELSE 0,
                 change24h |-> IF capId \in present
                               THEN parseFloatOrZero(CoinCapAssets[capId].changePercent24Hr)
                               ELSE 0]])

\* present: the CoinCap ids the payload's data array holds
coinCapGetPrices(coinIds, outcome, present) ==
    IF outcome = "fetchFailed"
    THEN Fail(PriceFeedError(<<"[CoinCap] Failed to fetch current prices">>))
    ELSE IF outcome = "invalid"
    THEN Fail(PriceFeedError(<<"[CoinCap] Invalid response format">>))
    ELSE LET priceMap == [a \in present |->
                            [priceUsd |-> parseFloatOrZero(CoinCapAssets[a].priceUsd),
                             change24h |->
                                 parseFloatOrZero(CoinCapAssets[a].changePercent24Hr)]]
         IN  Succeed([i \in 1..Len(coinIds) |->
                LET capId == toCoinCapId(coinIds[i])
                IN  [coinGeckoId |-> coinIds[i],
                     priceUsd |-> IF capId \in DOMAIN priceMap
                                  THEN priceMap[capId].priceUsd ELSE 0,
                     change24h |-> IF capId \in DOMAIN priceMap
                                   THEN priceMap[capId].change24h ELSE 0]])

coinGeckoGetHistorical(coinId, outcome, series) ==
    IF outcome = "fetchFailed"
    THEN Fail(PriceFeedError(<<"[CoinGecko] Failed historical for", coinId>>))
    ELSE IF outcome = "invalid"
    THEN Fail(PriceFeedError(<<"[CoinGecko] Invalid historical format:", coinId>>))
    ELSE Succeed([coinGeckoId |-> coinId, dailyPrices |-> series])

coinCapGetHistorical(coinId, outcome, series) ==
    IF outcome = "fetchFailed"
    THEN Fail(PriceFeedError(<<"[CoinCap] Failed historical for", coinId>>))
    ELSE IF outcome = "invalid"
    THEN Fail(PriceFeedError(<<"[CoinCap] Invalid historical format:", coinId>>))
    ELSE Succeed([coinGeckoId |-> coinId, dailyPrices |-> series])

\* an orElse that runs the fallback whatever the primary did
failsOverAlways(primaryResult) == TRUE

\* Effect.orElse(primary, () => fallback): the fallback runs exactly when the
\* primary has failed
failsOver(primaryResult) == ~primaryResult.ok

\* an orElse that keeps the primary's error when the fallback fails as well
orElseFirstError(primaryError, fallbackResult) ==
    IF fallbackResult.ok THEN fallbackResult ELSE Fail(primaryError)

\* Effect.orElse(primary, () => fallback) once the primary has failed with
\* primaryError: the outcome is the fallback's
orElse(primaryError, fallbackResult) == fallbackResult

\* what a provider answered to a request: kept beside the request so that
\* the properties can refer to it
Answer(provider, outcome, present) ==
    [provider |-> provider, outcome |-> outcome,
     present |-> IF outcome = "ok" THEN present ELSE {}]

\* ------------------------------------------------------------------------
\* PortfolioStoreLive
\* ------------------------------------------------------------------------
HISTORY_LIMIT == 100

\* readOutcome "ok": the file is read and parsed; "readError": readFileSync or
\* JSON.parse throws and the inner catch answers []; "storeError": the store
\* effect itself fails (the service's error channel)
loadHistory(file, readOutcome) ==
    IF readOutcome = "ok" THEN Succeed(file)
    ELSE IF readOutcome = "readError" THEN Succeed(<<>>)
    ELSE Fail(StoreError(<<"Failed to load history from", "historyPath">>))

\* saveResult's own read of the file: what cannot be read or parsed counts
\* as no history ("File doesn't exist yet -- start fresh")
readExisting(file, readOutcome) ==
    IF readOutcome = "ok" THEN file ELSE <<>>

\* a saveResult that never drops an entry
saveResultUncapped(file, result, writeOutcome) ==
    IF writeOutcome = "ok"
    THEN Succeed(Append(file, result))
    ELSE Fail(StoreError(<<"Failed to save result to", "historyPath">>))

saveResult(file, result, writeOutcome) ==
    IF writeOutcome = "ok"
    THEN LET pushed == Append(file, result)
         IN  Succeed(IF Len(pushed) > HISTORY_LIMIT
                     THEN SubSeq(pushed, Len(pushed) - HISTORY_LIMIT + 1, Len(pushed))
                     ELSE pushed)
    ELSE Fail(StoreError(<<"Failed to save result to", "historyPath">>))

\* ------------------------------------------------------------------------
\* State
\* ------------------------------------------------------------------------
VARIABLES
    portfolio,          \* the Portfolio handed to runAnalysis (its holdings)
    config,             \* AppConfig: priceFeedConcurrency, maxRetries, thresholds
    history,            \* the history file: AnalysisResult snapshots, newest last
    pc,                 \* where runAnalysis stands
    cur,                \* the current-price request: attempt, stage, primary's error
    prices,             \* <<>> or <<the TokenPrice sequence>>
    tasks,              \* the historical fetch of each coin id
    historicalResult,   \* <<>> or <<[ok, data]>>
    historyRead,        \* "none", or how the degrade path's history read went
    cached,             \* <<>> or <<the entries the degrade path got>>
    riskSource,         \* "none", "live", "cached" or "concentration"
    result,             \* <<>> or <<the AnalysisResult>>
    saveOutcome,        \* "none", "ok" or "writeError"
    notified,           \* the alert sequences handed to alertNotifier.notify
    logs,               \* the <<level, message>> pairs logged
    cycleError,         \* <<>> or <<the error runAnalysis failed with>>
    saves,              \* the results saveResult has written to the history file
    domainCall,         \* <<>> or <<a call of a pure domain function: args, returned>>
    limiter,            \* the config makeRateLimiter was given
    bucket,             \* the RateLimiter's TokenBucket (Ref)
    acquired,           \* acquire() calls that returned
    refilledTotal,      \* tokens the refills have added to the bucket so far
    calls,              \* acquire() calls of each fiber that returned
    callers,            \* the fibers that call acquire(): where each stands
    statusReport,       \* <<>> or <<what the last status() returned>>
    monitor             \* the monitoring mode: its stage, cycles and renders

analysisVars == <<portfolio, config, history, pc, cur, prices, tasks, historicalResult,
                  historyRead, cached, riskSource, result, saveOutcome, notified, logs,
                  cycleError, saves, domainCall>>

counters == <<acquired, refilledTotal, calls>>

limiterVars == <<limiter, bucket, counters, callers, statusReport>>

vars == <<analysisVars, saves, domainCall, limiterVars, monitor>>

coinIds == [i \in 1..Len(portfolio) |-> portfolio[i].coinGeckoId]

\* ------------------------------------------------------------------------
\* RateLimiter service: a token bucket held in a Ref
\* ------------------------------------------------------------------------
maxTokens == 10

RateLimiterLive == [maxTokens |-> maxTokens, refillRatePerSecond |-> <<33, 100>>]

\* the configs the bucket is explored with: tokens per second
RefillRates == {<<3, 1>>, <<20, 1>>}

LimiterConfigs == [maxTokens : 1..MaxCapacity, refillRatePerSecond : RefillRates]

\* rates that refill quarter tokens in 100 ms: however long the callers go
\* on, the bucket holds one of finitely many amounts
SteadyRates == {<<5, 2>>, <<20, 1>>}

SteadyConfigs == [maxTokens : 1..MaxCapacity, refillRatePerSecond : SteadyRates]

\* Date.now(), in ms.  Instants are kept relative to the present, which is 0:
\* time passing moves every stored instant into the past (see Tick)
now == 0

RMin(a, b) == IF RLt(b, a) THEN b ELSE a
Max(a, b) == IF a > b THEN a ELSE b
Floor(a) == a[1] \div a[2]
Ceil(a) == -((-a[1]) \div a[2])

\* Ref.make({ tokens: config.maxTokens, lastRefillMs: Date.now() })
makeRateLimiter(cfg) == [tokens |-> FromInt(cfg.maxTokens), lastRefillMs |-> now]

\* a refill without the Math.min against maxTokens
refillUncapped(b) ==
    [tokens |-> RAdd(b.tokens, RMul(Rat(now - b.lastRefillMs, 1000),
                                    limiter.refillRatePerSecond)),
     lastRefillMs |-> now]

refill(b) ==
    LET elapsedSeconds == Rat(now - b.lastRefillMs, 1000)
        newTokens == RMin(FromInt(limiter.maxTokens),
                          RAdd(b.tokens,
                               RMul(elapsedSeconds, limiter.refillRatePerSecond)))
    IN  [tokens |-> newTokens, lastRefillMs |-> now]

\* an acquire whose answer and whose write are not one step of the Ref: the
\* token it hands out is still in the bucket
tryAcquireUnpaid(b) ==
    [hasToken |-> RLe(One, refill(b).tokens), bucket |-> refill(b)]

\* an acquire that wants more than one token in the bucket
tryAcquireStrict(b) ==
    Eval1(LAMBDA refilled :
            IF RLt(One, refilled.tokens)
            THEN [hasToken |-> TRUE,
                  bucket |-> [refilled EXCEPT !.tokens = RSub(refilled.tokens, One)]]
            ELSE [hasToken |-> FALSE, bucket |-> refilled],
          refill(b))

\* the function acquire hands to Ref.modify: [its answer, the new bucket]
tryAcquire(b) ==
    Eval1(LAMBDA refilled :
            IF RLe(One, refilled.tokens)
            THEN [hasToken |-> TRUE,
                  bucket |-> [refilled EXCEPT !.tokens = RSub(refilled.tokens, One)]]
            ELSE [hasToken |-> FALSE, bucket |-> refilled],
          refill(b))

\* the wait rounded down to whole milliseconds
waitMsFloor(b) ==
    Floor(RMul(RDiv(RSub(One, b.tokens), limiter.refillRatePerSecond), FromInt(1000)))

waitMs(b) ==
    Ceil(RMul(RDiv(RSub(One, b.tokens), limiter.refillRatePerSecond), FromInt(1000)))

MIN_SLEEP_MS == 100

\* Effect.sleep(`${Math.max(waitMs, 100)} millis`)
sleepMillis(b) == Max(waitMs(b), MIN_SLEEP_MS)

\* a status() that stores the refilled bucket it looked at
statusRefilling(b) ==
    [bucket |-> refill(b),
     report |-> [availableTokens |-> Floor(refill(b).tokens),
                 maxTokens |-> limiter.maxTokens]]

\* status(): [the bucket it leaves in the Ref, what it returns]
status(b) ==
    [bucket |-> b,
     report |-> [availableTokens |-> Floor(refill(b).tokens),
                 maxTokens |-> limiter.maxTokens]]

\* after this many ms a refill fills the bucket whatever it held
fullRefillMs == Ceil(RMul(RDiv(FromInt(limiter.maxTokens), limiter.refillRatePerSecond),
                          FromInt(1000)))

\* ------------------------------------------------------------------------
\* workflows/analyse.ts : the pieces of runAnalysis
\* ------------------------------------------------------------------------
\* Schedule.exponential("1 seconds") intersected with Schedule.recurs(maxRetries):
\* after `retries` retries already made, is one more allowed?
\* a schedule that recurs once more than configured
retryPolicyOneMore(retries) == retries <= config.maxRetries

retryPolicy(retries) == retries < config.maxRetries

\* a retry placed inside the failover: only the fallback is tried again
retryFallbackOnly == "fallback"

\* getCurrentPrices(..).pipe(Effect.retry(retryPolicy)): a retry runs the whole
\* of the PriceFeed call again, and that call starts with its primary
retryWholeRequest == "primary"

\* a step 1 that swallowed the error and went on to the historical fetch
currentPricesIgnored(e) == [pc |-> "FetchingHistorical", error |-> <<>>]

\* Effect.tapError + the failing yield* of step 1: what runAnalysis does with
\* the error left after the retries
currentPricesFailed(e) == [pc |-> "Failed", error |-> <<e>>]

\* { concurrency: n }: Effect runs the tasks in order on n workers when n > 1
\* and one after the other otherwise
concurrencyLimit ==
    IF config.priceFeedConcurrency > 1 THEN config.priceFeedConcurrency ELSE 1

active(t) == t.status \in {"primary", "fallback", "backoff"}
inFlight(t) == t.status \in {"primary", "fallback"}

\* an Effect.all without its concurrency option: every task starts at once
workerAlwaysAvailable == TRUE

workerAvailable ==
    Cardinality({i \in DOMAIN tasks : active(tasks[i])}) < concurrencyLimit

\* Effect.map((data) => ({ ok: true, data }))
historicalSucceeded(data) == [caught |-> TRUE, ok |-> TRUE, data |-> data]

\* a catchTag handler that kept the series fetched before the failure
historicalPartial(e, completed) ==
    [caught |-> TRUE, ok |-> Len(completed) > 0, data |-> completed]

\* Effect.catchTag("PriceFeedError", ...) : completed = the series fetched so far
historicalFailed(e, completed) ==
    IF e.tag = "PriceFeedError"
    THEN [caught |-> TRUE, ok |-> FALSE, data |-> <<>>]
    ELSE [caught |-> FALSE, ok |-> FALSE, data |-> <<>>]

\* a live branch taken whenever the batch succeeded, even with no series
useLiveDataWhenOk(hr) == hr.ok

useLiveData(hr) == hr.ok /\ Len(hr.data) > 0

\* a loadHistory without the catchAll: its StoreError reaches runAnalysis
loadHistoryUncaught(loaded) == loaded

\* store.loadHistory(...).pipe(Effect.catchAll(() => Effect.succeed([])))
loadHistoryOrEmpty(loaded) == IF loaded.ok THEN loaded ELSE Succeed(<<>>)

\* a fallback summing the weights instead of their squares
concentrationLinear(valuation) ==
    [valueAtRisk95 |-> Zero, valueAtRisk99 |-> Zero,
     volatilityAnnualised |-> Zero, sharpeRatio |-> Zero,
     concentrationHHI |-> RSum([i \in 1..Len(valuation.holdings) |->
                                  valuation.holdings[i].weight]),
     maxDrawdown |-> Zero]

concentrationOnly(valuation) ==
    [valueAtRisk95 |-> Zero, valueAtRisk99 |-> Zero,
     volatilityAnnualised |-> Zero, sharpeRatio |-> Zero,
     concentrationHHI |-> sumSquaredWeights(valuation.holdings),
     maxDrawdown |-> Zero]

\* a fallback reading the oldest entry of the history
oldestCachedRisk(entries) == entries[1].risk

cachedRisk(entries) == entries[Len(entries)].risk

\* a degrade path that never reuses the history's metrics
degradedRiskFromScratch(entries, valuation) == concentrationOnly(valuation)

degradedRisk(entries, valuation) ==
    IF Len(entries) > 0 THEN cachedRisk(entries) ELSE concentrationOnly(valuation)

liveRisk(data, valuation) ==
    Eval3(calculateRiskMetrics, valuation.totalValueUsd,
          calculatePortfolioReturns(data, valuation.holdings),
          valuation.holdings)

\* a result that repeats the alerts stored with the metrics it reuses
AnalysisResultStoredAlerts(timestamp, valuation, risk) ==
    [timestamp |-> timestamp, valuation |-> valuation, risk |-> risk,
     alerts |-> IF history # <<>> /\ risk = cachedRisk(history)
                THEN history[Len(history)].alerts
                ELSE generateAlerts(valuation, risk, config.thresholds)]

AnalysisResult(timestamp, valuation, risk) ==
    [timestamp |-> timestamp, valuation |-> valuation, risk |-> risk,
     alerts |-> generateAlerts(valuation, risk, config.thresholds)]

\* a saveResult without the catchAll: its StoreError fails the cycle
saveResultOrFail(saved) ==
    IF saved.ok THEN [ok |-> TRUE, warned |-> FALSE]
    ELSE [ok |-> FALSE, warned |-> FALSE]

\* a catchAll that drops the StoreError without logging it
saveResultSilently(saved) == [ok |-> TRUE, warned |-> FALSE]

\* store.saveResult(...).pipe(Effect.catchAll((e) => logger.warn(...)))
saveResultOrWarn(saved) ==
    IF saved.ok THEN [ok |-> TRUE, warned |-> FALSE]
    ELSE [ok |-> TRUE, warned |-> TRUE]

\* ------------------------------------------------------------------------
\* The history file before the cycle: empty, or left by two earlier cycles
\* ------------------------------------------------------------------------
PriorHoldings ==
    <<[symbol |-> "BTC", coinGeckoId |-> "bitcoin", amount |-> 1],
      [symbol |-> "AVAX", coinGeckoId |-> "avalanche-2", amount |-> 2]>>

PriorValuation ==
    valuatePortfolio(PriorHoldings,
        coinGeckoGetPrices(<<"bitcoin", "avalanche-2">>, "ok", CoinIds).value[1])

PriorResult(timestamp, risk) ==
    [timestamp |-> timestamp, valuation |-> PriorValuation, risk |-> risk,
     alerts |-> generateAlerts(PriorValuation, risk, DEFAULT_THRESHOLDS)]

PriorConcentrationOnly ==
    PriorResult("2026-01-13T12:00:00.000Z", concentrationOnly(PriorValuation))

PriorLive ==
    PriorResult("2026-01-14T12:00:00.000Z",
        liveRisk(<<[coinGeckoId |-> "bitcoin", dailyPrices |-> <<2, 1, 2>>],
                   [coinGeckoId |-> "avalanche-2", dailyPrices |-> <<1, 2, 2>>]>>,
                 PriorValuation))

Histories == {<<>>, <<PriorConcentrationOnly, PriorLive>>}

\* ------------------------------------------------------------------------
\* Init: runAnalysis(portfolio) is about to run
\* ------------------------------------------------------------------------
\* calls: the provider calls made so far for a request that is in progress
PendingTask ==
    [status |-> "pending", retries |-> 0, calls |-> 0, error |-> <<>>, series |-> <<>>]

AnalysisInit ==
    /\ portfolio \in Portfolios
    /\ config \in [priceFeedConcurrency : 1..MaxConcurrency,
                   maxRetries : 0..MaxRetriesBound,
                   thresholds : {DEFAULT_THRESHOLDS}]
    /\ history \in Histories
    /\ pc = "Start"
    /\ cur = [retries |-> 0, calls |-> 0, stage |-> "idle", error |-> <<>>, last |-> <<>>]
    /\ prices = <<>>
    /\ tasks = [i \in 1..Len(portfolio) |-> PendingTask]
    /\ historicalResult = <<>>
    /\ historyRead = "none"
    /\ cached = <<>>
    /\ riskSource = "none"
    /\ result = <<>>
    /\ saveOutcome = "none"
    /\ notified = <<>>
    /\ logs = {}
    /\ cycleError = <<>>
    /\ saves = 0
    /\ domainCall = <<>>

\* the program is not in monitoring mode
MonitorOff ==
    [variant |-> "none", stage |-> "off", cycles |-> 0, previous |-> <<>>,
     rendered |-> <<>>, renders |-> 0, succeeded |-> <<>>, running |-> 0,
     intervals |-> 0]

\* RateLimiterLive is built; runAnalysis has no caller of acquire()
RateLimiterBuilt ==
    /\ limiter = RateLimiterLive
    /\ bucket = makeRateLimiter(limiter)
    /\ acquired = 0
    /\ refilledTotal = Zero
    /\ calls = <<>>
    /\ callers = <<>>
    /\ statusReport = <<>>

\* single-shot mode
Init ==
    /\ AnalysisInit
    /\ RateLimiterBuilt
    /\ monitor = MonitorOff

Log(level, message) == logs' = logs \cup {<<level, message>>}

\* ------------------------------------------------------------------------
\* Step 1: current prices (retried; each attempt fails over)
\* ------------------------------------------------------------------------
StartAnalysis ==
    /\ pc = "Start"
    /\ pc' = "FetchingCurrent"
    /\ cur' = [cur EXCEPT !.stage = "primary", !.calls = @ + 1]
    /\ logs' = logs \cup {<<"info", "Starting portfolio analysis">>,
                          <<"debug", "Fetching current prices">>}
    /\ UNCHANGED <<portfolio, config, history, prices, tasks, historicalResult,
                   historyRead, cached, riskSource, result, saveOutcome, notified, cycleError,
                   saves, domainCall, limiterVars, monitor>>

\* the yield* of step 1 returned: log, then start Effect.all over the coin ids
CurrentPricesReceived(quotes, answer) ==
    /\ prices' = <<quotes>>
    /\ cur' = [retries |-> 0, calls |-> 0, stage |-> "done", error |-> <<>>,
               last |-> <<answer>>]
    /\ logs' = logs \cup {<<"debug", "Prices received">>,
                          <<"debug", "Fetching 30-day historical prices concurrently">>}
    /\ IF Len(coinIds) = 0
       THEN /\ historicalResult' = <<historicalSucceeded(<<>>)>>
            /\ pc' = "Computing"
       ELSE /\ historicalResult' = historicalResult
            /\ pc' = "FetchingHistorical"
    /\ UNCHANGED <<portfolio, config, history, tasks, historyRead, cached, riskSource, result,
                   saveOutcome, notified, cycleError, saves, domainCall, limiterVars, monitor>>

CurrentPrimaryResponds ==
    /\ pc = "FetchingCurrent"
    /\ cur.stage = "primary"
    /\ \E outcome \in Outcomes : \E present \in PayloadsOf(outcome, QuoteResponses) :
        LET r == coinGeckoGetPrices(coinIds, outcome, present)
        IN  IF ~failsOver(r)
            THEN CurrentPricesReceived(r.value[1], Answer("CoinGecko", outcome, present))
            ELSE /\ cur' = [cur EXCEPT !.stage = "fallback", !.calls = @ + 1,
                                       !.error = r.error,
                                       !.last = <<Answer("CoinGecko", outcome, present)>>]
                 /\ UNCHANGED <<portfolio, config, history, pc, prices, tasks,
                                historicalResult, historyRead, cached, riskSource, result,
                                saveOutcome, notified, logs, cycleError, saves, domainCall, limiterVars, monitor>>

CurrentFallbackResponds ==
    /\ pc = "FetchingCurrent"
    /\ cur.stage = "fallback"
    /\ \E outcome \in Outcomes : \E present \in PayloadsOf(outcome, AssetResponses) :
        LET r == orElse(cur.error[1], coinCapGetPrices(coinIds, outcome, present))
        IN  IF r.ok
            THEN CurrentPricesReceived(r.value[1], Answer("CoinCap", outcome, present))
            ELSE /\ IF retryPolicy(cur.retries)
                    THEN /\ cur' = [cur EXCEPT !.stage = "backoff", !.error = <<>>,
                                               !.last = <<Answer("CoinCap", outcome, present)>>]
                         /\ UNCHANGED <<pc, cycleError, logs>>
                    ELSE LET f == currentPricesFailed(r.error[1])
                         IN  /\ cur' = [cur EXCEPT !.stage = "failed", !.error = r.error,
                                                   !.last = <<Answer("CoinCap", outcome, present)>>]
                             /\ pc' = f.pc
                             /\ cycleError' = f.error
                             /\ Log("error", "Price fetch failed after retries")
                 /\ UNCHANGED <<portfolio, config, history, prices, tasks,
                                historicalResult, historyRead, cached, riskSource, result,
                                saveOutcome, notified, saves, domainCall, limiterVars, monitor>>

\* the backoff sleep is over: the next attempt starts with the primary again
CurrentRetry ==
    /\ pc = "FetchingCurrent"
    /\ cur.stage = "backoff"
    /\ cur' = [cur EXCEPT !.stage = retryWholeRequest, !.retries = @ + 1,
                           !.calls = @ + 1]
    /\ UNCHANGED <<portfolio, config, history, pc, prices, tasks, historicalResult,
                   historyRead, cached, riskSource, result, saveOutcome, notified, logs,
                   cycleError, saves, domainCall, limiterVars, monitor>>

\* ------------------------------------------------------------------------
\* Step 2: Effect.all over the coin ids, each getHistoricalPrices retried
\* ------------------------------------------------------------------------
doneSeries(ts) ==
    LET done == {i \in DOMAIN ts : ts[i].status = "done"}
        RECURSIVE collect(_)
        collect(i) == IF i > Len(ts) THEN <<>>
                      ELSE (IF i \in done THEN ts[i].series ELSE <<>>) \o collect(i + 1)
    IN  collect(1)

\* an Effect.all that returned at the first success
someTaskDone(ts) == \E j \in DOMAIN ts : ts[j].status = "done"

\* Effect.all has its value once every task has succeeded
allTasksDone(ts) == \A j \in DOMAIN ts : ts[j].status = "done"

\* a worker takes the next coin id of the list and sends the primary request
HistoricalStart(i) ==
    /\ pc = "FetchingHistorical"
    /\ tasks[i].status = "pending"
    /\ \A j \in 1..(i - 1) : tasks[j].status # "pending"
    /\ workerAvailable
    /\ tasks' = [tasks EXCEPT ![i].status = "primary", ![i].calls = @ + 1]
    /\ UNCHANGED <<portfolio, config, history, pc, cur, prices, historicalResult,
                   historyRead, cached, riskSource, result, saveOutcome, notified, logs,
                   cycleError, saves, domainCall, limiterVars, monitor>>

\* task i succeeded; Effect.all succeeds once every task has
HistoricalTaskDone(i, series) ==
    LET ts == [tasks EXCEPT ![i] = [status |-> "done", retries |-> 0, calls |-> 0,
                                    error |-> <<>>, series |-> <<series>>]]
    IN  /\ tasks' = ts
        /\ IF allTasksDone(ts)
           THEN /\ historicalResult' = <<historicalSucceeded(doneSeries(ts))>>
                /\ pc' = "Computing"
           ELSE UNCHANGED <<historicalResult, pc>>
        /\ UNCHANGED <<cycleError, logs>>

\* task i failed for good: Effect.all interrupts the running tasks, starts no
\* other, and fails with e
HistoricalBatchFailed(i, e) ==
    LET hr == historicalFailed(e, doneSeries(tasks))
    IN  /\ tasks' = [j \in DOMAIN tasks |->
                IF j = i THEN [tasks[j] EXCEPT !.status = "failed", !.error = <<e>>]
                ELSE IF active(tasks[j])
                     THEN [tasks[j] EXCEPT !.status = "interrupted", !.error = <<>>]
                     ELSE tasks[j]]
        /\ IF hr.caught
           THEN /\ historicalResult' = <<hr>>
                /\ pc' = "Computing"
                /\ Log("warn", "Historical prices unavailable, using fallback")
                /\ UNCHANGED cycleError
           ELSE /\ pc' = "Failed"
                /\ cycleError' = <<e>>
                /\ UNCHANGED <<historicalResult, logs>>

HistoricalPrimaryResponds(i) ==
    /\ pc = "FetchingHistorical"
    /\ tasks[i].status = "primary"
    /\ \E outcome \in Outcomes : \E series \in PayloadsOf(outcome, SeriesPool) :
        LET r == coinGeckoGetHistorical(coinIds[i], outcome, series)
        IN  IF ~failsOver(r)
            THEN HistoricalTaskDone(i, r.value[1])
            ELSE /\ tasks' = [tasks EXCEPT ![i].status = "fallback",
                                           ![i].calls = @ + 1,
                                           ![i].error = r.error]
                 /\ UNCHANGED <<pc, historicalResult, cycleError, logs>>
    /\ UNCHANGED <<portfolio, config, history, cur, prices, historyRead, cached, riskSource,
                   result, saveOutcome, notified, saves, domainCall, limiterVars, monitor>>

HistoricalFallbackResponds(i) ==
    /\ pc = "FetchingHistorical"
    /\ tasks[i].status = "fallback"
    /\ \E outcome \in Outcomes : \E series \in PayloadsOf(outcome, SeriesPool) :
        LET r == orElse(tasks[i].error[1],
                        coinCapGetHistorical(coinIds[i], outcome, series))
        IN  IF r.ok
            THEN HistoricalTaskDone(i, r.value[1])
            ELSE /\ IF retryPolicy(tasks[i].retries)
                    THEN /\ tasks' = [tasks EXCEPT ![i].status = "backoff",
                                                   ![i].error = <<>>]
                         /\ UNCHANGED <<pc, historicalResult, cycleError, logs>>
                    ELSE HistoricalBatchFailed(i, r.error[1])
    /\ UNCHANGED <<portfolio, config, history, cur, prices, historyRead, cached, riskSource,
                   result, saveOutcome, notified, saves, domainCall, limiterVars, monitor>>

HistoricalRetry(i) ==
    /\ pc = "FetchingHistorical"
    /\ tasks[i].status = "backoff"
    /\ tasks' = [tasks EXCEPT ![i].status = retryWholeRequest, ![i].retries = @ + 1,
                               ![i].calls = @ + 1]
    /\ UNCHANGED <<portfolio, config, history, pc, cur, prices, historicalResult,
                   historyRead, cached, riskSource, result, saveOutcome, notified, logs,
                   cycleError, saves, domainCall, limiterVars, monitor>>

\* ------------------------------------------------------------------------
\* Steps 3 and 4: valuation, risk (live or degraded), alerts, timestamp
\* ------------------------------------------------------------------------
ComputeLiveRisk ==
    /\ pc = "Computing"
    /\ useLiveData(historicalResult[1])
    /\ \E timestamp \in Timestamps :
        result' = <<Eval1(LAMBDA valuation :
                        Eval3(AnalysisResult, timestamp, valuation,
                              liveRisk(historicalResult[1].data, valuation)),
                        valuatePortfolio(portfolio, prices[1]))>>
    /\ riskSource' = "live"
    /\ pc' = "Persisting"
    /\ Log("debug", "Computing risk metrics (pure)")
    /\ UNCHANGED <<portfolio, config, history, cur, prices, tasks, historicalResult,
                   historyRead, cached, saveOutcome, notified, cycleError,
                   saves, domainCall, limiterVars, monitor>>

DegradeRisk ==
    /\ pc = "Computing"
    /\ ~useLiveData(historicalResult[1])
    /\ \E readOutcome \in {"ok", "readError", "storeError"}, timestamp \in Timestamps :
        LET loaded == loadHistoryOrEmpty(loadHistory(history, readOutcome))
        IN  /\ historyRead' = readOutcome
            /\ IF loaded.ok
               THEN /\ cached' = loaded.value
                    /\ result' = <<Eval1(LAMBDA valuation :
                                    Eval3(AnalysisResult, timestamp, valuation,
                                          degradedRisk(loaded.value[1], valuation)),
                                    valuatePortfolio(portfolio, prices[1]))>>
                    /\ riskSource' = IF Len(loaded.value[1]) > 0 THEN "cached"
                                     ELSE "concentration"
                    /\ pc' = "Persisting"
                    /\ UNCHANGED cycleError
               ELSE /\ pc' = "Failed"
                    /\ cycleError' = loaded.error
                    /\ UNCHANGED <<cached, result, riskSource>>
    /\ logs' = logs \cup {<<"debug", "Computing risk metrics (pure)">>,
                          <<"warn", "Using estimated risk metrics from cached data">>}
    /\ UNCHANGED <<portfolio, config, history, cur, prices, tasks, historicalResult,
                   saveOutcome, notified, saves, domainCall, limiterVars, monitor>>

\* ------------------------------------------------------------------------
\* Step 5: persist; step 6: notify and return
\* ------------------------------------------------------------------------
PersistResult ==
    /\ pc = "Persisting"
    /\ \E readOutcome \in {"ok", "readError"}, writeOutcome \in {"ok", "writeError"} :
        LET saved == saveResult(readExisting(history, readOutcome), result[1], writeOutcome)
            handled == saveResultOrWarn(saved)
        IN  /\ saveOutcome' = writeOutcome
            /\ history' = IF saved.ok THEN saved.value[1] ELSE history
            /\ saves' = IF saved.ok THEN saves + 1 ELSE saves
            /\ IF handled.ok
               THEN /\ pc' = "Notifying"
                    /\ UNCHANGED cycleError
               ELSE /\ pc' = "Failed"
                    /\ cycleError' = saved.error
            /\ IF handled.warned
               THEN Log("warn", "Could not persist results")
               ELSE UNCHANGED logs
    /\ UNCHANGED <<portfolio, config, cur, prices, tasks, historicalResult, historyRead, cached,
                   riskSource, result, notified, domainCall, limiterVars, monitor>>

notifyEnabled == pc = "Notifying"

NotifyAlerts ==
    /\ notifyEnabled
    /\ notified' = Append(notified, result[1].alerts)
    /\ pc' = "Done"
    /\ Log("info", "Analysis complete")
    /\ UNCHANGED <<portfolio, config, history, cur, prices, tasks, historicalResult,
                   historyRead, cached, riskSource, result, saveOutcome, cycleError,
                   saves, domainCall, limiterVars, monitor>>

Next ==
    \/ StartAnalysis
    \/ CurrentPrimaryResponds
    \/ CurrentFallbackResponds
    \/ CurrentRetry
    \/ \E i \in DOMAIN tasks : HistoricalStart(i)
    \/ \E i \in DOMAIN tasks : HistoricalPrimaryResponds(i)
    \/ \E i \in DOMAIN tasks : HistoricalFallbackResponds(i)
    \/ \E i \in DOMAIN tasks : HistoricalRetry(i)
    \/ ComputeLiveRisk
    \/ DegradeRisk
    \/ PersistResult
    \/ NotifyAlerts

Spec == Init /\ [][Next]_vars

\* every request is answered and every sleep ends: the runtime keeps running
\* whatever step is possible
LiveSpec == Spec /\ WF_vars(Next)

\* ------------------------------------------------------------------------
\* Properties of one cycle
\* ------------------------------------------------------------------------
historicalOk == historicalResult # <<>> /\ historicalResult[1].ok
historicalNotOk == historicalResult # <<>> /\ ~historicalResult[1].ok
batchFailed == \E i \in DOMAIN tasks : tasks[i].status = "failed"
requestsInFlight ==
    Cardinality({i \in DOMAIN tasks : inFlight(tasks[i])})
    + (IF cur.stage \in {"primary", "fallback"} THEN 1 ELSE 0)
historicalInFlight == Cardinality({i \in DOMAIN tasks : inFlight(tasks[i])})

\* C1: once the current prices have been fetched, the cycle ends in Done with
\* an AnalysisResult, whatever the historical fetch, the history read and the
\* save did
C1_CurrentPricesLeadToResult ==
    (prices # <<>>) ~> (pc = "Done" /\ result # <<>>)

C1_Witness ==
    /\ pc = "Done"
    /\ result # <<>>
    /\ batchFailed
    /\ historyRead = "readError"
    /\ saveOutcome = "writeError"

\* C2: when the last allowed attempt of the current-price fetch has failed,
\* runAnalysis has failed with that attempt's PriceFeedError, there is no
\* result, no historical request was started, the history file is as it was
\* and the notifier was not called
C2_CurrentFailureFailsCycle ==
    cur.stage = "failed" =>
        /\ pc = "Failed"
        /\ cur.retries = config.maxRetries
        /\ cycleError = cur.error
        /\ cycleError[1].tag = "PriceFeedError"
        /\ prices = <<>>
        /\ result = <<>>
        /\ \A i \in DOMAIN tasks : tasks[i].status = "pending"
        /\ historicalResult = <<>>
        /\ saveOutcome = "none"
        /\ history \in Histories
        /\ notified = <<>>

C2_Witness ==
    /\ cur.stage = "failed"
    /\ pc = "Failed"
    /\ config.maxRetries > 0
    /\ Len(portfolio) > 0
    /\ history # <<>>

\* C3: when the fetch of one coin id has failed for good, the batch outcome is
\* ok:false with no data, and the risk is not computed from fetched series
C3_BatchFailureHasNoData ==
    batchFailed =>
        /\ historicalResult # <<>>
        /\ historicalResult[1].ok = FALSE
        /\ historicalResult[1].data = <<>>
        /\ riskSource # "live"
        /\ pc # "FetchingHistorical"

C3_Witness ==
    /\ batchFailed
    /\ \E i \in DOMAIN tasks : tasks[i].status = "done"
    /\ riskSource \in {"cached", "concentration"}

\* C4: in the step that degrades after a failed batch, when the read of the
\* history gives its entries and there is at least one, the cycle's risk is
\* the risk of the last entry of the file
C4_CachedRiskIsLastEntry ==
    [][(/\ pc = "Computing"
        /\ historicalNotOk
        /\ historyRead' = "ok"
        /\ Len(history) > 0)
       => (/\ result' # <<>>
           /\ result'[1].risk = history[Len(history)].risk
           /\ riskSource' = "cached")]_vars

C4_Witness ==
    /\ batchFailed
    /\ riskSource = "cached"
    /\ Len(cached[1]) > 1
    /\ result[1].risk = cached[1][Len(cached[1])].risk
    /\ result[1].risk # cached[1][1].risk
    /\ result[1].valuation # cached[1][Len(cached[1])].valuation

RECURSIVE C5_SquaredWeights(_)
C5_SquaredWeights(hs) ==
    IF hs = <<>> THEN Zero
    ELSE RAdd(RMul(Head(hs).weight, Head(hs).weight), C5_SquaredWeights(Tail(hs)))

\* C5: after a failed batch with no prior history, every metric of the result
\* is 0 but concentrationHHI, which is the sum of the squared weights of the
\* result's valuation
C5_ConcentrationOnlyMetrics ==
    (result # <<>> /\ historicalNotOk /\ historyRead = "ok" /\ cached = <<<<>>>>) =>
        /\ result[1].risk.valueAtRisk95 = Zero
        /\ result[1].risk.valueAtRisk99 = Zero
        /\ result[1].risk.volatilityAnnualised = Zero
        /\ result[1].risk.sharpeRatio = Zero
        /\ result[1].risk.maxDrawdown = Zero
        /\ result[1].risk.concentrationHHI
              = C5_SquaredWeights(result[1].valuation.holdings)

C5_Witness ==
    /\ result # <<>>
    /\ batchFailed
    /\ historyRead = "ok"
    /\ cached = <<<<>>>>
    /\ Len(result[1].valuation.holdings) = 2
    /\ result[1].risk.concentrationHHI = <<13, 25>>

\* C6: a history read that fails during the degrade path counts as an empty
\* history: the cycle goes on with concentration-only metrics
C6_ReadFailureIsEmptyHistory ==
    historyRead \in {"readError", "storeError"} =>
        /\ pc # "Failed"
        /\ cycleError = <<>>
        /\ cached = <<<<>>>>
        /\ riskSource = "concentration"
        /\ result # <<>>
        /\ result[1].risk.valueAtRisk95 = Zero
        /\ result[1].risk.concentrationHHI
              = C5_SquaredWeights(result[1].valuation.holdings)

C6_Witness ==
    /\ historyRead = "readError"
    /\ history # <<>>
    /\ pc = "Done"
    /\ riskSource = "concentration"

\* C7: a failed save is logged as a warning and changes nothing else: the
\* cycle goes on to the notifier, which gets the result's alerts, and ends in
\* Done with the result it had built before the save
C7_SaveFailureIsNotFatal ==
    [][/\ pc = "Persisting" =>
            /\ pc' = "Notifying"
            /\ result' = result
            /\ saveOutcome' = "writeError" =>
                    /\ <<"warn", "Could not persist results">> \in logs'
                    /\ history' = history
       /\ pc = "Notifying" =>
            /\ pc' = "Done"
            /\ result' = result
            /\ notified' = Append(notified, result[1].alerts)]_vars

C7_Witness ==
    /\ pc = "Done"
    /\ saveOutcome = "writeError"
    /\ <<"warn", "Could not persist results">> \in logs
    /\ notified = <<result[1].alerts>>
    /\ result[1].alerts # <<>>

\* C8: no historical request is started before the current prices are there;
\* the risk is computed only once every historical request has succeeded or
\* the batch has failed, none still running; the notifier is called only
\* after the save was attempted
C8_StepOrder ==
    /\ (\E i \in DOMAIN tasks : tasks[i].status # "pending")
            => (prices # <<>> /\ cur.stage = "done")
    /\ result # <<>>
            => /\ \A i \in DOMAIN tasks : ~active(tasks[i])
               /\ \/ \A i \in DOMAIN tasks : tasks[i].status = "done"
                  \/ batchFailed
    /\ notified # <<>> => saveOutcome # "none"

C8_Witness ==
    /\ pc = "Done"
    /\ notified # <<>>
    /\ Len(portfolio) = 2
    /\ \A i \in DOMAIN tasks : tasks[i].status = "done"
    /\ riskSource = "live"

\* C9: never more historical requests in flight than the concurrency limit
C9_ConcurrencyCap ==
    historicalInFlight <= config.priceFeedConcurrency

C9_Witness ==
    /\ historicalInFlight = config.priceFeedConcurrency
    /\ \E i \in DOMAIN tasks : tasks[i].status = "pending"
    /\ \E i \in DOMAIN tasks : tasks[i].status = "fallback" /\ tasks[i].retries > 0

\* C10: every price request in flight was preceded by an acquire() of its own
\* that returned, so the requests in flight never outnumber those acquires
C10_RequestsAreRateLimited ==
    requestsInFlight <= acquired

\* ------------------------------------------------------------------------
\* The RateLimiter under concurrent callers (makeRateLimiter, any config)
\* ------------------------------------------------------------------------
CallerIds == 1..MaxCallers

\* a fiber that is not inside acquire()
IdleCaller == [pc |-> "idle", wakeAt |-> now, seen |-> 0]

LimiterInit(configs) ==
    /\ AnalysisInit
    /\ portfolio = <<>>
    /\ config.priceFeedConcurrency = 1
    /\ config.maxRetries = 0
    /\ history = <<>>
    /\ limiter \in configs
    /\ bucket = makeRateLimiter(limiter)
    /\ acquired = 0
    /\ refilledTotal = Zero
    /\ calls = [c \in CallerIds |-> 0]
    /\ callers = [c \in CallerIds |-> IdleCaller]
    /\ statusReport = <<>>
    /\ monitor = MonitorOff

BucketInit == LimiterInit(LimiterConfigs)

\* a fiber calls acquire()
Call(c) ==
    /\ callers[c].pc = "idle"
    /\ callers' = [callers EXCEPT ![c].pc = "attempt"]
    /\ UNCHANGED <<analysisVars, monitor, limiter, bucket, counters, statusReport>>

\* Ref.modify(bucketRef, ...): one atomic step; with hasToken acquire returns
Attempt(c) ==
    /\ callers[c].pc \in {"attempt", "retry"}
    /\ LET r == Eval1(tryAcquire, bucket)
       IN  /\ bucket' = r.bucket
           /\ callers' = [callers EXCEPT
                            ![c] = IF r.hasToken THEN IdleCaller
                                   ELSE [@ EXCEPT !.pc = "failed", !.seen = 0]]
    /\ UNCHANGED <<analysisVars, monitor, limiter, statusReport>>

\* Ref.get(bucketRef), waitMs, and the start of Effect.sleep
StartSleep(c) ==
    /\ callers[c].pc = "failed"
    /\ callers' = [callers EXCEPT
                     ![c].pc = "sleeping",
                     ![c].wakeAt = now + sleepMillis(bucket),
                     ![c].seen = acquired]
    /\ UNCHANGED <<analysisVars, monitor, limiter, bucket, counters, statusReport>>

\* Effect.sleep is over: yield* acquire()
Wake(c) ==
    /\ callers[c].pc = "sleeping"
    /\ callers[c].wakeAt <= now
    /\ callers' = [callers EXCEPT ![c].pc = "retry"]
    /\ UNCHANGED <<analysisVars, monitor, limiter, bucket, counters, statusReport>>

\* status()
Status ==
    /\ LET r == status(bucket)
       IN  /\ bucket' = r.bucket
           /\ statusReport' = <<r.report>>
    /\ UNCHANGED <<analysisVars, monitor, limiter, counters, callers>>

\* how far the clock may move in one step: a short while, or up to the end of
\* a sleep
TickSteps == {100} \cup {callers[c].wakeAt : c \in {k \in CallerIds : callers[k].wakeAt > now}}

\* d ms pass: every stored instant lies d ms further back.  An instant is
\* not followed further back than the point from where on its age makes no
\* difference
Tick(d) ==
    /\ bucket' = [bucket EXCEPT !.lastRefillMs = Max(@ - d, now - fullRefillMs)]
    /\ callers' = [c \in CallerIds |->
                     [callers[c] EXCEPT !.wakeAt = Max(@ - d, now)]]
    /\ UNCHANGED <<analysisVars, monitor, limiter, counters, statusReport>>

\* the counters observe an Attempt step of c: what its refill added, and
\* whether acquire() returned
Counted(c) ==
    /\ refilledTotal' = RAdd(refilledTotal, RSub(refill(bucket).tokens, bucket.tokens))
    /\ acquired' = IF callers'[c].pc = "idle" THEN acquired + 1 ELSE acquired
    /\ calls' = [calls EXCEPT ![c] = IF callers'[c].pc = "idle" THEN @ + 1 ELSE @]

\* MaxCallers fibers make MaxCalls calls of acquire() each, every call counted
BucketNext ==
    \/ \E c \in CallerIds : calls[c] < MaxCalls /\ Call(c)
    \/ \E c \in CallerIds : Attempt(c) /\ Counted(c)
    \/ \E c \in CallerIds : StartSleep(c)
    \/ \E c \in CallerIds : Wake(c)
    \/ Status
    \/ \E d \in TickSteps : Tick(d)

BucketSpec == BucketInit /\ [][BucketNext]_vars

\* what a fiber inside acquire() does next, nothing counted
AcquireStep(c) ==
    \/ Attempt(c) /\ UNCHANGED counters
    \/ StartSleep(c)
    \/ Wake(c)

\* the fibers call acquire() for as long as they like
ServiceNext ==
    \/ \E c \in CallerIds : Call(c)
    \/ \E c \in CallerIds : Attempt(c) /\ UNCHANGED counters
    \/ \E c \in CallerIds : StartSleep(c)
    \/ \E c \in CallerIds : Wake(c)
    \/ Status
    \/ \E d \in TickSteps : Tick(d)

\* every fiber inside acquire() gets to run, and time passes
LiveBucketSpec ==
    /\ LimiterInit(SteadyConfigs)
    /\ [][ServiceNext]_vars
    /\ \A c \in CallerIds : WF_vars(AcquireStep(c))
    /\ WF_vars(\E d \in TickSteps : Tick(d))

\* ------------------------------------------------------------------------
\* Properties of the RateLimiter
\* ------------------------------------------------------------------------
capacity == FromInt(limiter.maxTokens)

\* C11: under any interleaving of the callers, the acquire() calls that have
\* returned never outnumber the initial capacity plus the tokens refilled so
\* far, and the bucket holds exactly what is left of them: every returned
\* acquire took one token of its own and a failed attempt took none
C11_EachTokenConsumedOnce ==
    /\ RLe(FromInt(acquired), RAdd(capacity, refilledTotal))
    /\ bucket.tokens = RSub(RAdd(capacity, refilledTotal), FromInt(acquired))

\* refilled tokens have been handed out while another caller's attempt failed
C11_Witness ==
    /\ acquired > limiter.maxTokens
    /\ \E c \in DOMAIN callers : callers[c].pc = "failed"
    /\ \E c \in DOMAIN calls : calls[c] > 0

\* C12: the bucket's tokens stay within 0..capacity, as stored and as a
\* refill at the present instant would make them
C12_TokensWithinCapacity ==
    /\ RLe(Zero, bucket.tokens)
    /\ RLe(bucket.tokens, capacity)
    /\ RLe(Zero, refill(bucket).tokens)
    /\ RLe(refill(bucket).tokens, capacity)

\* a failed attempt stored a partial refill, and by now the bucket would
\* refill to its capacity
C12_Witness ==
    /\ RLt(Zero, bucket.tokens)
    /\ RLt(bucket.tokens, One)
    /\ bucket.lastRefillMs = now - fullRefillMs
    /\ refill(bucket).tokens = capacity
    /\ \E c \in DOMAIN callers : callers[c].pc = "sleeping"

\* C13 as stated: acquire() has no error outcome, and every call of it
\* returns in the end, one token consumed, whatever the other callers do
C13_AcquireReturns ==
    \A c \in CallerIds : (callers[c].pc # "idle") ~> (callers[c].pc = "idle")

\* C13 (amended): acquire() has no error outcome, and every call of it
\* returns in the end, one token consumed, unless the other fibers keep
\* calling acquire() for ever: a waiting caller has no precedence over a
\* later one
C13_AcquireReturnsUnlessOutrun ==
    \A c \in CallerIds :
        \/ []<><<\E d \in CallerIds \ {c} : Call(d)>>_vars
        \/ (callers[c].pc # "idle") ~> (callers[c].pc = "idle")

\* every caller is asleep inside acquire() at once, the bucket empty
C13_Witness ==
    /\ \A c \in DOMAIN callers : callers[c].pc = "sleeping" /\ callers[c].wakeAt > now
    /\ DOMAIN callers = CallerIds
    /\ RLt(refill(bucket).tokens, One)

\* C14: a caller that finds less than one token sleeps
\* max(ceil((1 - tokens) / refillRate * 1000), 100) ms, which for a bucket
\* just emptied is max(ceil(1000 / refillRate), 100) ms; it does not return
\* while that sleep lasts; and its retry after the sleep returns, unless
\* another caller's acquire returned since the sleep began
C14_SleepThenSucceed ==
    [][\A c \in CallerIds :
        /\ (callers[c].pc = "failed" /\ callers'[c].pc = "sleeping") =>
              LET slept == callers'[c].wakeAt - now
                  needed == RMul(RDiv(RSub(One, bucket.tokens),
                                      limiter.refillRatePerSecond), FromInt(1000))
              IN  /\ slept >= 100
                  /\ RLe(needed, FromInt(slept))
                  /\ slept = 100 \/ RLt(FromInt(slept - 1), needed)
                  /\ (bucket.tokens = Zero) =>
                        slept = Max(Ceil(RDiv(FromInt(1000),
                                              limiter.refillRatePerSecond)), 100)
        /\ (callers[c].pc = "sleeping" /\ callers[c].wakeAt > now) =>
              callers'[c].pc = "sleeping"
        /\ (callers[c].pc = "retry" /\ callers'[c].pc # "retry"
                /\ callers[c].seen = acquired) =>
              /\ callers'[c].pc = "idle"
              /\ acquired' = acquired + 1
    ]_vars

\* the bucket was emptied by capacity acquires at one instant; the next
\* caller found it empty, slept its sleep to the end and is about to retry
C14_Witness ==
    /\ acquired = limiter.maxTokens
    /\ refilledTotal = Zero
    /\ bucket.tokens = Zero
    /\ bucket.lastRefillMs = now - sleepMillis(bucket)
    /\ \E c \in DOMAIN callers : callers[c].pc = "retry" /\ callers[c].seen = acquired

\* C15: in whatever state status() is called, it leaves tokens and
\* lastRefillMs as they were, and reports the whole tokens a refill at that
\* instant would give, and the capacity
C15_StatusReadsOnly ==
    [][Status =>
        /\ bucket' = bucket
        /\ callers' = callers
        /\ statusReport'[1].maxTokens = limiter.maxTokens
        /\ LET elapsedMs == now - bucket.lastRefillMs
               grown == RAdd(bucket.tokens,
                             RDiv(RMul(FromInt(elapsedMs), limiter.refillRatePerSecond),
                                  FromInt(1000)))
               n == statusReport'[1].availableTokens
           IN  /\ n <= limiter.maxTokens
               /\ RLe(FromInt(n), grown)
               /\ n = limiter.maxTokens \/ RLt(grown, FromInt(n + 1))
    ]_vars

\* status() has reported more whole tokens than the bucket stores: those a
\* refill would add
C15_Witness ==
    /\ statusReport # <<>>
    /\ bucket.lastRefillMs < now
    /\ statusReport[1].availableTokens = Floor(refill(bucket).tokens)
    /\ statusReport[1].availableTokens > Floor(bucket.tokens)
    /\ \E c \in DOMAIN callers : callers[c].pc = "sleeping"

\* ------------------------------------------------------------------------
\* Properties of the PriceFeed calls and of their retries
\* ------------------------------------------------------------------------
coinGeckoErrors ==
    {PriceFeedError(<<"[CoinGecko] Failed to fetch current prices">>),
     PriceFeedError(<<"[CoinGecko] Invalid response format">>)}
        \cup UNION {{PriceFeedError(<<"[CoinGecko] Failed historical for", id>>),
                     PriceFeedError(<<"[CoinGecko] Invalid historical format:", id>>)}
                    : id \in CoinIds}

\* C16: a getCurrentPrices or getHistoricalPrices call asks the primary
\* first; it asks the fallback exactly when the primary's answer was a
\* failure; a primary success is the call's result, and so is a fallback
\* success, with no error raised
C16_FallbackIffPrimaryFailed ==
    [][/\ (cur.stage \in {"idle", "backoff"} /\ cur'.stage # cur.stage) =>
              cur'.stage = "primary"
       /\ (cur'.stage = "fallback" /\ cur.stage # "fallback") =>
              /\ cur.stage = "primary"
              /\ cur'.last # <<>> /\ cur'.last[1].provider = "CoinGecko"
              /\ cur'.last[1].outcome # "ok"
              /\ cur'.error # <<>> /\ cur'.error[1] \in coinGeckoErrors
       /\ (cur.stage = "primary" /\ cur'.stage # "primary") =>
              \/ cur'.stage = "fallback"
              \/ /\ cur'.stage = "done"
                 /\ \E present \in QuoteResponses :
                        prices' = <<[i \in 1..Len(portfolio) |->
                            [coinGeckoId |-> portfolio[i].coinGeckoId,
                             priceUsd |-> IF portfolio[i].coinGeckoId \in present
                                 THEN MarketQuote[portfolio[i].coinGeckoId].usd ELSE 0,
                             change24h |-> IF portfolio[i].coinGeckoId \in present
                                 THEN MarketQuote[portfolio[i].coinGeckoId].usd_24h_change
                                 ELSE 0]]>>
       /\ (cur.stage = "fallback" /\ cur'.stage = "done") =>
              /\ pc' # "Failed" /\ cycleError' = <<>>
              /\ <<"error", "Price fetch failed after retries">> \notin logs'
              /\ \E present \in AssetResponses :
                     prices' = <<coinCapGetPrices(coinIds, "ok", present).value[1]>>
       /\ \A i \in DOMAIN tasks :
              /\ (tasks[i].status \in {"pending", "backoff"}
                      /\ tasks'[i].status \notin {tasks[i].status, "interrupted"}) =>
                     tasks'[i].status = "primary"
              /\ (tasks'[i].status = "fallback" /\ tasks[i].status # "fallback") =>
                     /\ tasks[i].status = "primary"
                     /\ tasks'[i].error # <<>> /\ tasks'[i].error[1] \in coinGeckoErrors
              /\ (tasks[i].status = "primary"
                      /\ tasks'[i].status \notin {"primary", "interrupted"}) =>
                     tasks'[i].status \in {"fallback", "done"}
              /\ (tasks[i].status = "fallback" /\ tasks'[i].status = "done") =>
                     /\ tasks'[i].error = <<>>
                     /\ tasks'[i].series # <<>> /\ tasks'[i].series[1].coinGeckoId = coinIds[i]
                     /\ cycleError' = <<>>
    ]_vars

\* the primary failed, the fallback answered: the prices are CoinCap's, which
\* differ from what CoinGecko would have answered
C16_Witness ==
    /\ cur.stage = "done"
    /\ prices # <<>>
    /\ \E i \in DOMAIN prices[1] :
           /\ prices[1][i].coinGeckoId = "bitcoin"
           /\ prices[1][i].change24h = parseFloatOrZero(CoinCapAssets["bitcoin"].changePercent24Hr)
    /\ \E i \in DOMAIN tasks : tasks[i].status = "fallback"
    /\ cycleError = <<>>

\* C17: when the primary and the fallback both fail, the call fails with a
\* PriceFeedError whose reason is the fallback's (CoinCap's, for the way
\* CoinCap failed), never the primary's
C17_BothFailIsFallbackError ==
    /\ cur.stage = "failed" =>
          /\ cur.last # <<>> /\ cur.last[1].provider = "CoinCap"
          /\ cycleError =
                <<[tag |-> "PriceFeedError",
                   reason |-> IF cur.last[1].outcome = "fetchFailed"
                              THEN <<"[CoinCap] Failed to fetch current prices">>
                              ELSE <<"[CoinCap] Invalid response format">>]>>
          /\ cycleError[1] \notin coinGeckoErrors
    /\ \A i \in DOMAIN tasks :
          tasks[i].status = "failed" =>
              /\ tasks[i].error # <<>>
              /\ tasks[i].error[1].tag = "PriceFeedError"
              /\ tasks[i].error[1].reason \in
                     {<<"[CoinCap] Failed historical for", coinIds[i]>>,
                      <<"[CoinCap] Invalid historical format:", coinIds[i]>>}

\* CoinGecko could not be reached and CoinCap's payload was invalid, in the
\* last attempt of several
C17_Witness ==
    /\ cur.stage = "failed"
    /\ cur.retries > 0
    /\ cur.last = <<Answer("CoinCap", "invalid", {})>>
    /\ pc = "Failed"

\* C18: getCurrentPrices, when a provider's response was accepted, returns
\* one quote for each requested id, in the order of the request and under the
\* requested (CoinGecko) id; an id the response does not hold has priceUsd 0
\* and change24h 0, and the call does not fail for it
C18_OneQuotePerRequestedId ==
    cur.stage = "done" =>
        /\ prices # <<>> /\ cycleError = <<>>
        /\ cur.last # <<>> /\ cur.last[1].outcome = "ok"
        /\ Len(prices[1]) = Len(portfolio)
        /\ \A i \in 1..Len(portfolio) :
              LET id == portfolio[i].coinGeckoId
                  held == IF cur.last[1].provider = "CoinGecko" THEN id
                          ELSE IF id = "avalanche-2" THEN "avalanche" ELSE id
                  q == prices[1][i]
              IN  /\ q.coinGeckoId = id
                  /\ held \notin cur.last[1].present =>
                         q.priceUsd = 0 /\ q.change24h = 0
                  /\ (held \in cur.last[1].present /\ cur.last[1].provider = "CoinGecko") =>
                         /\ q.priceUsd = MarketQuote[id].usd
                         /\ q.change24h = MarketQuote[id].usd_24h_change
                  /\ (held \in cur.last[1].present /\ cur.last[1].provider = "CoinCap") =>
                         /\ <<q.priceUsd>> = CoinCapAssets[held].priceUsd
                         /\ \/ <<q.change24h>> = CoinCapAssets[held].changePercent24Hr
                            \/ q.change24h = 0 /\ CoinCapAssets[held].changePercent24Hr = <<>>

\* CoinCap answered for a request of avalanche-2 twice: one asset under its
\* own id, or none at all, and the call returned two quotes
C18_Witness ==
    /\ cur.stage = "done"
    /\ cur.last[1].provider = "CoinCap"
    /\ Len(portfolio) = 2
    /\ \A i \in DOMAIN portfolio : portfolio[i].coinGeckoId = "avalanche-2"
    /\ \A i \in DOMAIN prices[1] : prices[1][i].coinGeckoId = "avalanche-2"
    /\ cur.last[1].present = {"bitcoin"}
    /\ \A i \in DOMAIN prices[1] : prices[1][i].priceUsd = 0

\* C19: under the retry policy with maxRetries = m the current-price call is
\* attempted at most m + 1 times; a retry follows only a failed attempt; the
\* first success ends the attempts and its value is the result; and the
\* cycle fails only after attempt m + 1, with that attempt's error
C19_AtMostMaxRetriesPlusOne ==
    [][/\ cur'.retries + 1 <= config.maxRetries + 1
       /\ \A i \in DOMAIN tasks : tasks'[i].retries + 1 <= config.maxRetries + 1
       /\ (cur'.stage = "backoff" /\ cur.stage # "backoff") =>
              /\ cur.stage = "fallback"
              /\ cur'.last[1].outcome # "ok"
              /\ cur.retries < config.maxRetries
       /\ (cur'.retries # cur.retries /\ cur'.stage # "done") =>
              /\ cur.stage = "backoff"
              /\ cur'.retries = cur.retries + 1
       /\ (cur'.stage = "done" /\ cur.stage # "done") =>
              /\ cur'.last[1].outcome = "ok"
              /\ prices' # <<>>
              /\ cycleError' = <<>>
       /\ cur.stage = "done" => cur' = cur /\ prices' = prices
       /\ (cur'.stage = "failed" /\ cur.stage # "failed") =>
              /\ cur.retries = config.maxRetries
              /\ cur'.retries = cur.retries
              /\ cur'.last[1].outcome # "ok"
              /\ cycleError' =
                    <<[tag |-> "PriceFeedError",
                       reason |-> IF cur'.last[1].outcome = "fetchFailed"
                                  THEN <<"[CoinCap] Failed to fetch current prices">>
                                  ELSE <<"[CoinCap] Invalid response format">>]>>
       /\ cur.stage = "failed" => cur' = cur /\ cycleError' = cycleError
    ]_vars

\* every attempt the policy allows was made and failed
C19_Witness ==
    /\ cur.stage = "failed"
    /\ config.maxRetries = MaxRetriesBound
    /\ cur.retries = config.maxRetries
    /\ cur.last[1].outcome = "fetchFailed"
    /\ cycleError # <<>>

\* ------------------------------------------------------------------------
\* Monitoring mode: index.ts (Effect.repeat) and the Stream pipeline
\* ------------------------------------------------------------------------
MonitorVariants == {"repeat", "stream"}

\* --monitor: the first cycle starts at once, on a portfolio of one holding
\* and a history file that is still empty
MonitorInit ==
    /\ AnalysisInit
    /\ Len(portfolio) = 1
    /\ config.priceFeedConcurrency = 1
    /\ history = <<>>
    /\ RateLimiterBuilt
    /\ \E variant \in MonitorVariants :
           monitor = [variant |-> variant, stage |-> "cycle", cycles |-> 1,
                      previous |-> <<>>, rendered |-> <<>>, renders |-> 0,
                      succeeded |-> <<>>, running |-> 1, intervals |-> 0]

\* what separates a cycle from the next: Effect.repeat runs the loop once
\* more at once and spaces the runs after that; the stream's schedule spaces
\* every tick after the prepended one
betweenCycles(m) ==
    IF m.variant = "repeat" /\ m.cycles = 1 THEN "due" ELSE "sleeping"

\* the cycle's result is rendered: console.log(renderAnalysis(..)).  Results
\* are named by the number of their cycle; only the stream passes on the
\* previous result (zipWithPrevious); succeeded records, for the properties,
\* the cycles that returned a result, and running the calls of runAnalysis
\* that have not returned
CycleSucceeded ==
    /\ monitor.stage = "cycle"
    /\ pc = "Done"
    /\ monitor' = [monitor EXCEPT
                     !.rendered = <<[current |-> monitor.cycles,
                                     previous |-> IF monitor.variant = "stream"
                                                  THEN monitor.previous ELSE <<>>]>>,
                     !.renders = @ + 1,
                     !.succeeded = Append(@, monitor.cycles),
                     !.running = @ - 1,
                     !.previous = IF monitor.variant = "stream"
                                  THEN <<monitor.cycles>> ELSE @,
                     !.stage = betweenCycles(monitor)]
    /\ UNCHANGED <<analysisVars, limiterVars>>

\* a failure that reaches Effect.repeat or the stream ends them
cycleFailureEndsLoop(m) == [m EXCEPT !.stage = "ended"]

\* Effect.catchAll around the cycle: the monitor goes on to the next tick
cycleFailureCaught(m) == [m EXCEPT !.stage = betweenCycles(m)]

\* runAnalysis failed: logged, nothing rendered
CycleFailed ==
    /\ monitor.stage = "cycle"
    /\ pc = "Failed"
    /\ monitor' = [cycleFailureCaught(monitor) EXCEPT !.running = @ - 1]
    /\ Log("error", "Analysis cycle failed")
    /\ UNCHANGED <<portfolio, config, history, pc, cur, prices, tasks, historicalResult,
                   historyRead, cached, riskSource, result, saveOutcome, notified,
                   cycleError, saves, domainCall, limiterVars>>

\* Schedule.spaced: the interval is over; intervals counts, for the
\* properties, the intervals waited for
IntervalElapsed ==
    /\ monitor.stage = "sleeping"
    /\ monitor' = [monitor EXCEPT !.stage = "due", !.intervals = @ + 1]
    /\ UNCHANGED <<analysisVars, limiterVars>>

\* a timer that fires whatever the cycle before is doing
cycleMayStartOnTimer(m) == m.stage \in {"due", "cycle"}

\* Effect.repeat and Stream.mapEffect run the next cycle when the one before
\* has returned and the schedule's delay, which starts then, is over
cycleMayStart(m) == m.stage = "due"

\* the next runAnalysis(portfolio) starts: same portfolio and config, the
\* history file, the log and the notifier as the cycles before left them
NextCycle ==
    /\ cycleMayStart(monitor)
    /\ monitor.cycles < MaxCycles
    /\ monitor' = [monitor EXCEPT !.stage = "cycle", !.cycles = @ + 1,
                                   !.running = @ + 1]
    /\ pc' = "Start"
    /\ cur' = [retries |-> 0, calls |-> 0, stage |-> "idle", error |-> <<>>, last |-> <<>>]
    /\ prices' = <<>>
    /\ tasks' = [i \in 1..Len(portfolio) |-> PendingTask]
    /\ historicalResult' = <<>>
    /\ historyRead' = "none"
    /\ cached' = <<>>
    /\ riskSource' = "none"
    /\ result' = <<>>
    /\ saveOutcome' = "none"
    /\ cycleError' = <<>>
    /\ UNCHANGED <<portfolio, config, history, notified, logs, saves, domainCall, limiterVars>>

MonitorNext ==
    \/ Next
    \/ CycleSucceeded
    \/ CycleFailed
    \/ IntervalElapsed
    \/ NextCycle

MonitorSpec == MonitorInit /\ [][MonitorNext]_vars

\* every request is answered, every sleep and every interval ends
LiveMonitorSpec == MonitorSpec /\ WF_vars(MonitorNext)

\* C20: a failed cycle is caught and logged and renders nothing, the monitor
\* goes on, and after it the next cycle starts
C20_FailedCycleDoesNotEndLoop ==
    /\ [][(monitor.stage = "cycle" /\ pc = "Failed" /\ monitor' # monitor) =>
              /\ monitor'.renders = monitor.renders
              /\ monitor'.rendered = monitor.rendered
              /\ <<"error", "Analysis cycle failed">> \in logs'
              /\ monitor'.stage \in {"due", "sleeping"}
              /\ monitor'.cycles = monitor.cycles
          ]_vars
    /\ \A k \in 1..(MaxCycles - 1) :
           (monitor.stage = "cycle" /\ pc = "Failed" /\ monitor.cycles = k)
               ~> (monitor.stage = "cycle" /\ pc = "Start" /\ monitor.cycles = k + 1)

\* every cycle so far failed at the current prices, nothing was rendered and
\* the last cycle followed is running
C20_Witness ==
    /\ monitor.cycles = MaxCycles
    /\ monitor.stage = "cycle"
    /\ monitor.renders = 0
    /\ pc = "FetchingCurrent"
    /\ <<"error", "Analysis cycle failed">> \in logs
    /\ history = <<>>

\* the successful cycle before the last successful one, if there is one
predecessor(succeeded) ==
    IF Len(succeeded) < 2 THEN <<>> ELSE <<succeeded[Len(succeeded) - 1]>>

\* C21: what is on the screen is the last successful cycle, rendered against
\* the successful cycle before it whatever failed in between, and against
\* nothing when it is the first successful cycle
C21_RenderedAgainstLastSuccess ==
    monitor.rendered # <<>> =>
        /\ monitor.succeeded # <<>>
        /\ monitor.rendered[1].current = monitor.succeeded[Len(monitor.succeeded)]
        /\ monitor.rendered[1].previous = predecessor(monitor.succeeded)

\* C22: at most one runAnalysis is in progress, and a cycle starts only when
\* the runAnalysis of the cycle before has returned, with a result or failed
C22_OneCycleAtATime ==
    /\ [](monitor.running <= 1)
    /\ [](monitor.stage = "cycle" <=> monitor.running = 1)
    /\ [][monitor'.cycles # monitor.cycles =>
              /\ monitor.running = 0
              /\ pc \in {"Done", "Failed"}
              /\ monitor'.running = 1
              /\ pc' = "Start"
          ]_vars

\* the last cycle followed is in the middle of its historical requests while
\* no interval is being waited for
C22_Witness ==
    /\ monitor.cycles = MaxCycles
    /\ monitor.running = 1
    /\ pc = "FetchingHistorical"
    /\ \E i \in DOMAIN tasks : tasks[i].status = "fallback"

\* C23: the first cycle starts on entry and every later cycle after an
\* interval of its own: the cycles started are one more than the intervals
\* waited for, and as many while a cycle is due
C23_OneCyclePerInterval ==
    /\ monitor.stage \in {"cycle", "sleeping"} => monitor.cycles = monitor.intervals + 1
    /\ monitor.stage = "due" => monitor.cycles = monitor.intervals

\* ------------------------------------------------------------------------
\* The history file under a long sequence of saveResult calls
\* ------------------------------------------------------------------------
\* the n-th result written: the clock's timestamps grow with every result
Snapshot(n) == PriorResult(n, concentrationOnly(PriorValuation))

\* no analysis runs; the history file does not exist yet
StoreInit ==
    /\ AnalysisInit
    /\ portfolio = <<>>
    /\ config.priceFeedConcurrency = 1
    /\ config.maxRetries = 0
    /\ history = <<>>
    /\ RateLimiterBuilt
    /\ monitor = MonitorOff

\* store.saveResult(path, result): read the file, push, cut, write
SaveResult ==
    /\ saves < MaxSaves
    /\ \E readOutcome \in {"ok", "readError"}, writeOutcome \in {"ok", "writeError"} :
        LET saved == saveResult(readExisting(history, readOutcome),
                                Snapshot(saves + 1), writeOutcome)
        IN  /\ saveOutcome' = writeOutcome
            /\ history' = IF saved.ok THEN saved.value[1] ELSE history
            /\ saves' = IF saved.ok THEN saves + 1 ELSE saves
    /\ UNCHANGED <<portfolio, config, pc, cur, prices, tasks, historicalResult, historyRead,
                   cached, riskSource, result, notified, logs, cycleError, domainCall,
                   limiterVars, monitor>>

StoreNext == SaveResult

StoreSpec == StoreInit /\ [][StoreNext]_vars

hasNonzeroWeight(valuation) ==
    \E i \in DOMAIN valuation.holdings : valuation.holdings[i].weight # Zero

\* the Herfindahl index fits the weights of a valuation
concentrationFits(hhi, valuation) ==
    IF hasNonzeroWeight(valuation)
    THEN RGt(hhi, Zero) /\ RLe(hhi, One)
    ELSE hhi = Zero

\* C25 as claimed: in every result of a cycle, degraded-to-cache included,
\* concentrationHHI is in (0,1] when a holding of the result's valuation has
\* nonzero weight and 0 otherwise
C25_ConcentrationFitsValuation ==
    result # <<>> => concentrationFits(result[1].risk.concentrationHHI, result[1].valuation)

\* C25 (amended): in a live or concentration-only result concentrationHHI is
\* in (0,1] when a holding of the result's valuation has nonzero weight and 0
\* otherwise; a degraded-to-cache result carries the concentrationHHI of the
\* last history entry, which is in [0,1], whatever its own valuation's weights
C25_ConcentrationFitsOwnValuation ==
    result # <<>> =>
        LET hhi == result[1].risk.concentrationHHI
        IN  /\ riskSource \in {"live", "concentration", "cached"}
            /\ riskSource \in {"live", "concentration"} =>
                   concentrationFits(hhi, result[1].valuation)
            /\ riskSource = "cached" =>
                   /\ cached # <<>> /\ cached[1] # <<>>
                   /\ hhi = cached[1][Len(cached[1])].risk.concentrationHHI
                   /\ RLe(Zero, hhi) /\ RLe(hhi, One)

\* a live result over two holdings of nonzero weight
C25_Witness ==
    /\ result # <<>>
    /\ riskSource = "live"
    /\ Len(result[1].valuation.holdings) = 2
    /\ hasNonzeroWeight(result[1].valuation)
    /\ result[1].risk.concentrationHHI = <<13, 25>>

\* ------------------------------------------------------------------------
\* Startup: the portfolio file is loaded, then the analysis runs
\* ------------------------------------------------------------------------
\* holdings as a portfolio file can spell them: well-formed, with an amount
\* that is not positive, or with a field left out
FileHoldings ==
    HoldingPool \cup
        {[symbol |-> "ETH", coinGeckoId |-> "ethereum", amount |-> 0],
         [symbol |-> "ETH", coinGeckoId |-> "ethereum", amount |-> -1],
         [symbol |-> "ETH", coinGeckoId |-> "ethereum"],
         [symbol |-> "ETH", amount |-> 1],
         [coinGeckoId |-> "ethereum", amount |-> 1]}

\* the portfolio file: unreadable, no JSON, or JSON with some holdings
PortfolioFiles ==
    {[outcome |-> o, holdings |-> <<>>] : o \in {"unreadable", "invalidJson"}}
        \cup {[outcome |-> "ok", holdings |-> hs] :
                hs \in UNION {[1..n -> FileHoldings] : n \in 0..MaxHoldings}}

\* TokenHoldingSchema: the three fields, amount positive
validHolding(h) ==
    /\ {"symbol", "coinGeckoId", "amount"} \subseteq DOMAIN h
    /\ h.amount > 0

\* decodePortfolio = Schema.decodeUnknownSync(PortfolioSchema), on the holdings
decodePortfolio(holdings) ==
    \A i \in DOMAIN holdings : validHolding(holdings[i])

\* PortfolioStoreLive.loadPortfolio: readFileSync, JSON.parse, cast
loadPortfolio(file) ==
    IF file.outcome = "ok" THEN Succeed(file.holdings)
    ELSE Fail(StoreError(<<"Failed to load portfolio from", "portfolioPath">>))

\* the program has been started and has its config
StartupInit ==
    /\ portfolio = <<>>
    /\ config \in [priceFeedConcurrency : 1..MaxConcurrency,
                   maxRetries : 0..MaxRetriesBound,
                   thresholds : {DEFAULT_THRESHOLDS}]
    /\ history \in Histories
    /\ pc = "Loading"
    /\ cur = [retries |-> 0, calls |-> 0, stage |-> "idle", error |-> <<>>, last |-> <<>>]
    /\ prices = <<>>
    /\ tasks = <<>>
    /\ historicalResult = <<>>
    /\ historyRead = "none"
    /\ cached = <<>>
    /\ riskSource = "none"
    /\ result = <<>>
    /\ saveOutcome = "none"
    /\ notified = <<>>
    /\ logs = {}
    /\ cycleError = <<>>
    /\ saves = 0
    /\ domainCall = <<>>
    /\ RateLimiterBuilt
    /\ monitor = MonitorOff

\* program: store.loadPortfolio(portfolioPath); on success the portfolio is
\* what runAnalysis is called with, on failure the program ends ("Fatal error")
LoadPortfolio ==
    /\ pc = "Loading"
    /\ Log("info", "Loading portfolio")
    /\ \E file \in PortfolioFiles :
        LET loaded == loadPortfolio(file)
        IN  IF loaded.ok
            THEN /\ portfolio' = loaded.value[1]
                 /\ tasks' = [i \in 1..Len(loaded.value[1]) |-> PendingTask]
                 /\ pc' = "Start"
                 /\ UNCHANGED cycleError
            ELSE /\ pc' = "Failed"
                 /\ cycleError' = loaded.error
                 /\ UNCHANGED <<portfolio, tasks>>
    /\ UNCHANGED <<config, history, cur, prices, historicalResult, historyRead, cached,
                   riskSource, result, saveOutcome, notified, saves, domainCall, limiterVars, monitor>>

StartupNext == LoadPortfolio

StartupSpec == StartupInit /\ [][StartupNext]_vars

\* C26: the portfolio that reaches runAnalysis passed the portfolio schema:
\* each holding has its three fields and a positive amount
C26_InvalidPortfolioRejected ==
    pc = "Start" => decodePortfolio(portfolio)

\* ------------------------------------------------------------------------
\* The pure domain functions on inputs of their own (domain/risk.ts)
\* ------------------------------------------------------------------------
\* thresholds as configured by default, with warning above critical, and all 0
ThresholdPool ==
    {DEFAULT_THRESHOLDS,
     [DEFAULT_THRESHOLDS EXCEPT !.varPctWarning = <<1, 20>>, !.varPctCritical = <<3, 100>>,
                                !.volWarning = <<4, 5>>, !.volCritical = <<3, 5>>,
                                !.hhiWarning = <<1, 2>>, !.hhiCritical = <<7, 20>>],
     [varPctWarning |-> Zero, varPctCritical |-> Zero, volWarning |-> Zero,
      volCritical |-> Zero, hhiWarning |-> Zero, hhiCritical |-> Zero,
      drawdownCritical |-> Zero]}

\* metrics under, between, at and over the default thresholds
RiskPool ==
    [valueAtRisk95 : {Zero, <<1, 25>>, One}, valueAtRisk99 : {One},
     volatilityAnnualised : {Zero, <<7, 10>>, <<4, 5>>, One}, sharpeRatio : {Zero},
     concentrationHHI : {Zero, <<2, 5>>, One},
     maxDrawdown : {Zero, <<3, 20>>, <<1, 5>>}]

TotalValues == {0, 1, 2}

\* no analysis runs and no domain function has been called; a run of the
\* specification is one call
DomainInit ==
    /\ AnalysisInit
    /\ portfolio = <<>>
    /\ config.priceFeedConcurrency = 1
    /\ config.maxRetries = 0
    /\ history = <<>>
    /\ RateLimiterBuilt
    /\ monitor = MonitorOff

\* a call of a domain function: what it was given and what it returned
Called(fn, args, returned) == [fn |-> fn, args |-> args, returned |-> returned]

\* the domain functions touch nothing: all of the program's state
programState ==
    <<portfolio, config, history, pc, cur, prices, tasks, historicalResult, historyRead,
      cached, riskSource, result, saveOutcome, notified, logs, cycleError, saves,
      limiterVars, monitor>>

\* generateAlerts(valuation, risk, thresholds)
CallGenerateAlerts ==
    /\ domainCall = <<>>
    /\ \E total \in TotalValues, risk \in RiskPool, thresholds \in ThresholdPool :
        LET valuation == [totalValueUsd |-> total, holdings |-> <<>>]
        IN  domainCall' = <<Called("generateAlerts", <<valuation, risk, thresholds>>,
                                   generateAlerts(valuation, risk, thresholds))>>
    /\ UNCHANGED programState

\* holdings and quotes for valuatePortfolio: a coin quoted twice, a coin
\* quoted at 0, a coin without a quote
ValuedHoldings ==
    HoldingPool \cup {[symbol |-> "ETH", coinGeckoId |-> "ethereum", amount |-> 3]}

TokenPrices ==
    {[coinGeckoId |-> "bitcoin", priceUsd |-> 3, change24h |-> -2],
     [coinGeckoId |-> "bitcoin", priceUsd |-> 0, change24h |-> 0],
     [coinGeckoId |-> "avalanche-2", priceUsd |-> 1, change24h |-> 1],
     [coinGeckoId |-> "ethereum", priceUsd |-> 2, change24h |-> 0]}

\* valuatePortfolio(holdings, prices)
CallValuatePortfolio ==
    /\ domainCall = <<>>
    /\ \E holdings \in UNION {[1..n -> ValuedHoldings] : n \in 0..MaxHoldings},
          quotes \in UNION {[1..n -> TokenPrices] : n \in 0..MaxHoldings} :
        domainCall' = <<Called("valuatePortfolio", <<holdings, quotes>>,
                               valuatePortfolio(holdings, quotes))>>
    /\ UNCHANGED programState

\* daily closing prices: any series of prices 0, 1 and 2
PriceSeries == UNION {[1..n -> 0..2] : n \in 0..MaxSeries}

\* calculateDailyReturns(prices)
CallDailyReturns ==
    /\ domainCall = <<>>
    /\ \E series \in PriceSeries :
        domainCall' = <<Called("calculateDailyReturns", <<series>>,
                               calculateDailyReturns(series))>>
    /\ UNCHANGED programState

\* holdings for the return and risk calculations: a coin held in two lots
ReturnHoldings ==
    ValuedHoldings \cup {[symbol |-> "BTC", coinGeckoId |-> "bitcoin", amount |-> 2]}

\* every coin quoted at 1, and bitcoin quoted at 0
QuoteLists ==
    {<<[coinGeckoId |-> "bitcoin", priceUsd |-> 1, change24h |-> 0],
       [coinGeckoId |-> "avalanche-2", priceUsd |-> 1, change24h |-> 0],
       [coinGeckoId |-> "ethereum", priceUsd |-> 1, change24h |-> 0]>>,
     <<[coinGeckoId |-> "bitcoin", priceUsd |-> 0, change24h |-> 0],
       [coinGeckoId |-> "avalanche-2", priceUsd |-> 1, change24h |-> 0],
       [coinGeckoId |-> "ethereum", priceUsd |-> 1, change24h |-> 0]>>}

\* the valuations of the portfolios of up to MaxHoldings of these holdings
Valuations ==
    {valuatePortfolio(holdings, quotes) :
        holdings \in UNION {[1..n -> ReturnHoldings] : n \in 0..MaxHoldings},
        quotes \in QuoteLists}

\* historical series of bitcoin and ethereum (none of avalanche-2): a series
\* with no return, with one return, and one that ends at a price of 0
HistoricalPool ==
    {[coinGeckoId |-> id, dailyPrices |-> dailyPrices] :
        id \in {"bitcoin", "ethereum"},
        dailyPrices \in {<<1>>, <<1, 2>>, <<2, 1, 0>>}}

HistoricalLists == UNION {[1..n -> HistoricalPool] : n \in 0..MaxHoldings}

\* runAnalysis requests one series per holding, so an id comes twice among
\* the series only when two holdings share it, and then with the same prices
seriesPerHolding(historicalPrices, holdings) ==
    \A t, u \in DOMAIN historicalPrices :
        (t < u /\ historicalPrices[t].coinGeckoId = historicalPrices[u].coinGeckoId) =>
            /\ historicalPrices[t].dailyPrices = historicalPrices[u].dailyPrices
            /\ \E k, l \in DOMAIN holdings :
                /\ k < l
                /\ holdings[k].coinGeckoId = historicalPrices[t].coinGeckoId
                /\ holdings[l].coinGeckoId = historicalPrices[t].coinGeckoId

\* calculatePortfolioReturns(historicalPrices, holdings)
CallPortfolioReturns ==
    /\ domainCall = <<>>
    /\ \E historicalPrices \in HistoricalLists, valuation \in Valuations :
        /\ seriesPerHolding(historicalPrices, valuation.holdings)
        /\ domainCall' = <<Called("calculatePortfolioReturns",
                               <<historicalPrices, valuation.holdings>>,
                               calculatePortfolioReturns(historicalPrices,
                                                         valuation.holdings))>>
    /\ UNCHANGED programState

\* calculateRiskMetrics(portfolioValue, portfolioReturns, weights), called as
\* runAnalysis calls it: on a valuation and the portfolio returns of its
\* holdings
CallRiskMetrics ==
    /\ domainCall = <<>>
    /\ \E historicalPrices \in HistoricalLists, valuation \in Valuations :
        /\ seriesPerHolding(historicalPrices, valuation.holdings)
        /\ LET portfolioReturns ==
                    calculatePortfolioReturns(historicalPrices, valuation.holdings)
           IN  domainCall' = <<Called("calculateRiskMetrics",
                                      <<valuation.totalValueUsd, portfolioReturns,
                                        valuation.holdings>>,
                                      calculateRiskMetrics(valuation.totalValueUsd,
                                                           portfolioReturns,
                                                           valuation.holdings))>>
    /\ UNCHANGED programState

DomainNext ==
    \/ CallGenerateAlerts
    \/ CallValuatePortfolio
    \/ CallDailyReturns
    \/ CallPortfolioReturns
    \/ CallRiskMetrics

DomainSpec == DomainInit /\ [][DomainNext]_vars

called(fn) == domainCall # <<>> /\ domainCall[1].fn = fn

AlertMetrics == {"VaR (95%)", "Volatility", "Concentration", "Max Drawdown"}

\* what generateAlerts compares for a metric, and the thresholds it is
\* compared with (Max Drawdown has no warning threshold)
reading(metric, valuation, risk) ==
    IF metric = "VaR (95%)"
    THEN RDiv(risk.valueAtRisk95, FromInt(valuation.totalValueUsd))
    ELSE IF metric = "Volatility" THEN risk.volatilityAnnualised
    ELSE IF metric = "Concentration" THEN risk.concentrationHHI
    ELSE risk.maxDrawdown

criticalThreshold(metric, thresholds) ==
    IF metric = "VaR (95%)" THEN thresholds.varPctCritical
    ELSE IF metric = "Volatility" THEN thresholds.volCritical
    ELSE IF metric = "Concentration" THEN thresholds.hhiCritical
    ELSE thresholds.drawdownCritical

warningThreshold(metric, thresholds) ==
    IF metric = "VaR (95%)" THEN <<thresholds.varPctWarning>>
    ELSE IF metric = "Volatility" THEN <<thresholds.volWarning>>
    ELSE IF metric = "Concentration" THEN <<thresholds.hhiWarning>>
    ELSE <<>>

\* C27: generateAlerts returns at most one alert for each of its four
\* metrics, so at most 4, and for a metric over both its warning and its
\* critical threshold the one alert is the critical one
C27_OneAlertPerMetric ==
    called("generateAlerts") =>
        LET valuation == domainCall[1].args[1]
            risk == domainCall[1].args[2]
            thresholds == domainCall[1].args[3]
            alerts == domainCall[1].returned
            of(metric) == {i \in DOMAIN alerts : alerts[i].metric = metric}
        IN  /\ Len(alerts) <= 4
            /\ \A i \in DOMAIN alerts : alerts[i].metric \in AlertMetrics
            /\ \A metric \in AlertMetrics :
                /\ Cardinality(of(metric)) <= 1
                /\ (/\ valuation.totalValueUsd # 0
                    /\ warningThreshold(metric, thresholds) # <<>>
                    /\ RGt(reading(metric, valuation, risk),
                           criticalThreshold(metric, thresholds))
                    /\ RGt(reading(metric, valuation, risk),
                           warningThreshold(metric, thresholds)[1]))
                   => \E i \in of(metric) : alerts[i].level = "critical"

\* every metric is over both of its thresholds: four alerts, all critical
C27_Witness ==
    /\ called("generateAlerts")
    /\ Len(domainCall[1].returned) = 4
    /\ \A i \in 1..4 : domainCall[1].returned[i].level = "critical"
    /\ domainCall[1].args[3] = DEFAULT_THRESHOLDS

\* C28: for a valuation worth 0 generateAlerts returns no alert, whatever the
\* metrics and the thresholds
C28_NoAlertsOnZeroValue ==
    (called("generateAlerts") /\ domainCall[1].args[1].totalValueUsd = 0) =>
        domainCall[1].returned = <<>>

\* a portfolio worth 0 with every metric above thresholds that are all 0
C28_Witness ==
    /\ called("generateAlerts")
    /\ domainCall[1].args[1].totalValueUsd = 0
    /\ domainCall[1].args[2].valueAtRisk95 = One
    /\ domainCall[1].args[2].volatilityAnnualised = One
    /\ domainCall[1].args[2].concentrationHHI = One
    /\ domainCall[1].args[2].maxDrawdown = <<1, 5>>
    /\ domainCall[1].args[3].volCritical = Zero
    /\ domainCall[1].returned = <<>>

\* C29: valuatePortfolio returns one HoldingValuation per holding in input
\* order, valued at amount x price with price 0 when no quote has the
\* holding's id; the total is the sum of the values; with a total above 0
\* each weight is value / total and the weights sum to 1, with a total of 0
\* every weight is 0
C29_ValuationPerHolding ==
    called("valuatePortfolio") =>
        LET holdings == domainCall[1].args[1]
            quotes == domainCall[1].args[2]
            valuation == domainCall[1].returned
            valued == valuation.holdings
            total == valuation.totalValueUsd
        IN  /\ Len(valued) = Len(holdings)
            /\ \A i \in DOMAIN holdings :
                /\ valued[i].symbol = holdings[i].symbol
                /\ valued[i].coinGeckoId = holdings[i].coinGeckoId
                /\ valued[i].amount = holdings[i].amount
                /\ valued[i].valueUsd = holdings[i].amount * valued[i].price
                /\ IF \E k \in DOMAIN quotes : quotes[k].coinGeckoId = holdings[i].coinGeckoId
                   THEN \E k \in DOMAIN quotes :
                            /\ quotes[k].coinGeckoId = holdings[i].coinGeckoId
                            /\ valued[i].price = quotes[k].priceUsd
                   ELSE valued[i].price = 0
                /\ total > 0 => valued[i].weight = Rat(valued[i].valueUsd, total)
                /\ total = 0 => valued[i].weight = Zero
            /\ FromInt(total) = RSum([i \in DOMAIN valued |-> FromInt(valued[i].valueUsd)])
            /\ total > 0 => RSum([i \in DOMAIN valued |-> valued[i].weight]) = One

\* two holdings of different coins, both quoted: weights 3/5 and 2/5
C29_Witness ==
    /\ called("valuatePortfolio")
    /\ Len(domainCall[1].returned.holdings) = 2
    /\ domainCall[1].returned.totalValueUsd > 0
    /\ domainCall[1].returned.holdings[1].weight = <<3, 5>>
    /\ domainCall[1].returned.holdings[2].weight = <<2, 5>>
    /\ Len(domainCall[1].args[2]) = 2

\* C30 as claimed: a series of n >= 2 prices has n - 1 returns, a series of
\* 0 or 1 prices has none, and the returns of an all-equal series are all 0
C30_OneReturnPerPair ==
    called("calculateDailyReturns") =>
        LET series == domainCall[1].args[1]
            returns == domainCall[1].returned
        IN  /\ Len(series) >= 2 => Len(returns) = Len(series) - 1
            /\ Len(series) <= 1 => returns = <<>>
            /\ (\A i, j \in DOMAIN series : series[i] = series[j]) =>
                   \A k \in DOMAIN returns : returns[k] = Zero

\* C30 (amended): a series has one return for each pair of consecutive
\* prices whose earlier price is above 0, so n - 1 returns when every price
\* but the last is above 0; a series of 0 or 1 prices has none, and the
\* returns of an all-equal series are all 0
C30_OneReturnPerPositivePair ==
    called("calculateDailyReturns") =>
        LET series == domainCall[1].args[1]
            returns == domainCall[1].returned
            pairs == {i \in 2..Len(series) : series[i - 1] > 0}
        IN  /\ Len(returns) = Cardinality(pairs)
            /\ (Len(series) >= 2 /\ \A i \in 1..(Len(series) - 1) : series[i] > 0) =>
                   Len(returns) = Len(series) - 1
            /\ Len(series) <= 1 => returns = <<>>
            /\ (\A i, j \in DOMAIN series : series[i] = series[j]) =>
                   \A k \in DOMAIN returns : returns[k] = Zero

\* the longest series, all prices above 0 and not all equal
C30_Witness ==
    /\ called("calculateDailyReturns")
    /\ domainCall[1].args[1] = [i \in 1..MaxSeries |-> IF i = 2 THEN 2 ELSE 1]
    /\ Len(domainCall[1].returned) = MaxSeries - 1
    /\ domainCall[1].returned[1] = One

\* the daily returns of the first series with a holding's id, none when no
\* series has it
returnsOfHolding(historicalPrices, h) ==
    LET hits == {t \in DOMAIN historicalPrices :
                    historicalPrices[t].coinGeckoId = h.coinGeckoId}
    IN  IF hits = {} THEN <<>>
        ELSE calculateDailyReturns(
                historicalPrices[CHOOSE t \in hits : \A u \in hits : t <= u].dailyPrices)

\* C31: the portfolio return at each index i is the sum over the holdings of
\* weight x the return at i of the holding's series, a holding without a
\* series adding 0 and no weight being re-normalized, also when two holdings
\* share an id
C31_WeightedSumOverHoldings ==
    called("calculatePortfolioReturns") =>
        LET historicalPrices == domainCall[1].args[1]
            holdings == domainCall[1].args[2]
            portfolioReturns == domainCall[1].returned
        IN  \A i \in DOMAIN portfolioReturns :
                portfolioReturns[i] =
                    RSum([k \in DOMAIN holdings |->
                        LET returns == returnsOfHolding(historicalPrices, holdings[k])
                        IN  IF returns = <<>> THEN Zero
                            ELSE RMul(holdings[k].weight, returns[i])])

\* the lengths of the daily-return sequences of the series
returnLengths(historicalPrices) ==
    {Len(calculateDailyReturns(historicalPrices[t].dailyPrices)) :
        t \in DOMAIN historicalPrices}

\* C32: calculatePortfolioReturns returns as many returns as the shortest of
\* the series' daily-return sequences has, and none when there is no series
\* or when one of the series yields no return
C32_TruncatedToShortest ==
    called("calculatePortfolioReturns") =>
        LET historicalPrices == domainCall[1].args[1]
            portfolioReturns == domainCall[1].returned
            lengths == returnLengths(historicalPrices)
        IN  /\ historicalPrices = <<>> => portfolioReturns = <<>>
            /\ historicalPrices # <<>> =>
                    /\ Len(portfolioReturns) \in lengths
                    /\ \A l \in lengths : Len(portfolioReturns) <= l
            /\ 0 \in lengths => portfolioReturns = <<>>

\* a series of two returns next to a series of one: one portfolio return
C32_Witness ==
    /\ called("calculatePortfolioReturns")
    /\ returnLengths(domainCall[1].args[1]) = {1, 2}
    /\ Len(domainCall[1].args[2]) = 2
    /\ Len(domainCall[1].returned) = 1

\* C33: the maxDrawdown that calculateRiskMetrics returns is at least 0 and at
\* most 1 for every return series, and 0 for the empty series
C33_MaxDrawdownInUnitInterval ==
    called("calculateRiskMetrics") =>
        LET portfolioReturns == domainCall[1].args[2]
            maxDrawdown == domainCall[1].returned.maxDrawdown
        IN  /\ RLe(Zero, maxDrawdown)
            /\ RLe(maxDrawdown, One)
            /\ portfolioReturns = <<>> => maxDrawdown = Zero

\* C34: for weights that sum to 1, concentrationHHI is 1 exactly when one
\* weight alone is not 0, and it is 1/N for N equal weights
C34_ConcentrationOfWeights ==
    called("calculateRiskMetrics") =>
        LET weights == domainCall[1].args[3]
            hhi == domainCall[1].returned.concentrationHHI
            nonzero == {k \in DOMAIN weights : weights[k].weight # Zero}
        IN  RSum([k \in DOMAIN weights |-> weights[k].weight]) = One =>
                /\ hhi = One <=> Cardinality(nonzero) = 1
                /\ (\A k, l \in DOMAIN weights : weights[k].weight = weights[l].weight) =>
                        hhi = Rat(1, Len(weights))

\* MaxHoldings equal weights
C34_Witness ==
    /\ called("calculateRiskMetrics")
    /\ Len(domainCall[1].args[3]) = MaxHoldings
    /\ \A k \in DOMAIN domainCall[1].args[3] :
            domainCall[1].args[3][k].weight = Rat(1, MaxHoldings)
    /\ domainCall[1].returned.concentrationHHI = Rat(1, MaxHoldings)

\* the place of a metric in the order in which generateAlerts checks them
metricOrder(metric) ==
    IF metric = "VaR (95%)" THEN 1
    ELSE IF metric = "Volatility" THEN 2
    ELSE IF metric = "Concentration" THEN 3
    ELSE 4

\* C39: every alert of generateAlerts carries its metric's observed value and
\* a threshold that the value is strictly above (a value at a threshold raises
\* no alert of that threshold's level); the alert is critical exactly when the
\* value is above the critical threshold, its threshold is the one of its
\* level, and the alerts come in the order VaR, Volatility, Concentration,
\* Max Drawdown
C39_AlertsStrictLevelledOrdered ==
    called("generateAlerts") =>
        LET valuation == domainCall[1].args[1]
            risk == domainCall[1].args[2]
            thresholds == domainCall[1].args[3]
            alerts == domainCall[1].returned
        IN  /\ \A i \in DOMAIN alerts :
                LET value == reading(alerts[i].metric, valuation, risk)
                    critical == criticalThreshold(alerts[i].metric, thresholds)
                    warning == warningThreshold(alerts[i].metric, thresholds)
                IN  /\ alerts[i].value = value
                    /\ RGt(value, alerts[i].threshold)
                    /\ alerts[i].level \in {"critical", "warning"}
                    /\ alerts[i].level = "critical" <=> RGt(value, critical)
                    /\ alerts[i].level = "critical" => alerts[i].threshold = critical
                    /\ alerts[i].level = "warning" =>
                            warning # <<>> /\ alerts[i].threshold = warning[1]
            /\ \A i, j \in DOMAIN alerts :
                i < j => metricOrder(alerts[i].metric) < metricOrder(alerts[j].metric)
            /\ valuation.totalValueUsd # 0 =>
                \A metric \in AlertMetrics :
                    LET value == reading(metric, valuation, risk)
                        critical == criticalThreshold(metric, thresholds)
                        warning == warningThreshold(metric, thresholds)
                        raised == {i \in DOMAIN alerts : alerts[i].metric = metric}
                    IN  /\ RGt(value, critical) => raised # {}
                        /\ (warning # <<>> /\ RGt(value, warning[1])) => raised # {}
                        /\ (/\ ~RGt(value, critical)
                            /\ warning # <<>> => ~RGt(value, warning[1])) => raised = {}

\* volatility at its critical threshold raises the warning only, a drawdown at
\* its threshold nothing, behind a critical VaR alert
C39_Witness ==
    /\ called("generateAlerts")
    /\ domainCall[1].args[3] = DEFAULT_THRESHOLDS
    /\ domainCall[1].args[2].volatilityAnnualised = DEFAULT_THRESHOLDS.volCritical
    /\ domainCall[1].args[2].maxDrawdown = DEFAULT_THRESHOLDS.drawdownCritical
    /\ Len(domainCall[1].returned) = 2
    /\ domainCall[1].returned[1].metric = "VaR (95%)"
    /\ domainCall[1].returned[1].level = "critical"
    /\ domainCall[1].returned[2].metric = "Volatility"
    /\ domainCall[1].returned[2].level = "warning"
    /\ domainCall[1].returned[2].threshold = DEFAULT_THRESHOLDS.volWarning

\* C36: the risk metrics of a cycle are the live ones exactly when the
\* historical batch succeeded with at least one series; a portfolio without
\* holdings, whose batch succeeds with no series and no failed fetch, gets the
\* degraded metrics: the cached ones if the history has an entry, else the
\* concentration-only ones
C36_LiveIffBatchHasSeries ==
    riskSource # "none" =>
        LET hr == historicalResult[1]
            valuation == result[1].valuation
        IN  /\ riskSource = "live" <=> (hr.ok /\ Len(hr.data) > 0)
            /\ riskSource = "live" => result[1].risk = liveRisk(hr.data, valuation)
            /\ portfolio = <<>> =>
                    /\ hr.ok /\ hr.data = <<>>
                    /\ <<"warn", "Historical prices unavailable, using fallback">> \notin logs
                    /\ riskSource \in {"cached", "concentration"}
                    /\ riskSource = "cached" <=> cached[1] # <<>>
                    /\ riskSource = "cached" => result[1].risk = cachedRisk(cached[1])
                    /\ riskSource = "concentration" =>
                            result[1].risk = concentrationOnly(valuation)

\* a cycle on the empty portfolio ended with the metrics of the last cycle
C36_Witness ==
    /\ portfolio = <<>>
    /\ pc = "Done"
    /\ historicalResult[1].ok
    /\ riskSource = "cached"
    /\ result[1].risk = PriorLive.risk

\* the provider calls a request may make: two for each of its attempts
maxProviderCalls == 2 * (config.maxRetries + 1)

\* C37: a retry runs the whole request again, first the primary and, if that
\* fails, the fallback; a request makes at most 2 x (maxRetries + 1) provider
\* calls, and it fails only when the fallback has failed on the last attempt
C37_RetryWrapsFailover ==
    /\ [](/\ cur.calls <= maxProviderCalls
          /\ \A i \in DOMAIN tasks : tasks[i].calls <= maxProviderCalls)
    /\ [][/\ (cur.stage = "backoff" /\ cur'.stage # "backoff") =>
              /\ cur'.stage = "primary"
              /\ cur'.calls = cur.calls + 1
          /\ (cur'.stage = "fallback" /\ cur.stage # "fallback") =>
              /\ cur.stage = "primary"
              /\ cur'.last[1].provider = "CoinGecko" /\ cur'.last[1].outcome # "ok"
              /\ cur'.retries = cur.retries
              /\ cur'.calls = cur.calls + 1
          /\ (cur'.stage = "failed" /\ cur.stage # "failed") =>
              /\ cur.stage = "fallback"
              /\ cur.retries = config.maxRetries
              /\ cur'.last[1].provider = "CoinCap" /\ cur'.last[1].outcome # "ok"
              /\ cur'.calls = cur.calls
          /\ \A i \in DOMAIN tasks :
              /\ (tasks[i].status = "backoff"
                      /\ tasks'[i].status \notin {"backoff", "interrupted"}) =>
                     /\ tasks'[i].status = "primary"
                     /\ tasks'[i].calls = tasks[i].calls + 1
              /\ (tasks'[i].status = "fallback" /\ tasks[i].status # "fallback") =>
                     /\ tasks[i].status = "primary"
                     /\ tasks'[i].retries = tasks[i].retries
                     /\ tasks'[i].calls = tasks[i].calls + 1
              /\ (tasks'[i].status = "failed" /\ tasks[i].status # "failed") =>
                     /\ tasks[i].status = "fallback"
                     /\ tasks[i].retries = config.maxRetries
                     /\ tasks'[i].error # <<>>
                     /\ tasks'[i].error[1].reason[1] \in
                            {"[CoinCap] Failed historical for",
                             "[CoinCap] Invalid historical format:"}
                     /\ tasks'[i].calls = tasks[i].calls
      ]_vars

\* a historical request used up every attempt: both providers were called
\* on each of them
C37_Witness ==
    /\ config.maxRetries = MaxRetriesBound
    /\ \E i \in DOMAIN tasks :
        /\ tasks[i].status = "failed"
        /\ tasks[i].retries = MaxRetriesBound
        /\ tasks[i].calls = 2 * (MaxRetriesBound + 1)

\* C38: the alerts of every AnalysisResult are generateAlerts of that result's
\* valuation and risk and the configured thresholds; after a degrade to the
\* cache these are the reused metrics against the current valuation; and the
\* notifier is handed exactly the result's alerts
C38_AlertsOfTheResult ==
    /\ result # <<>> =>
        /\ result[1].alerts =
                generateAlerts(result[1].valuation, result[1].risk, config.thresholds)
        /\ result[1].valuation = valuatePortfolio(portfolio, prices[1])
        /\ riskSource = "cached" => result[1].risk = cachedRisk(cached[1])
    /\ notified # <<>> => notified = <<result[1].alerts>>
    /\ pc = "Done" => notified = <<result[1].alerts>>

\* a cycle that reused the stored metrics raised alerts other than the ones
\* stored with them, and the notifier got them
C38_Witness ==
    /\ pc = "Done"
    /\ riskSource = "cached"
    /\ result[1].alerts # <<>>
    /\ result[1].alerts # cached[1][Len(cached[1])].alerts
    /\ notified = <<result[1].alerts>>

\* C35: over the cycles of a monitoring run, the history file changes only by
\* a successful save, which puts the cycle's result last whether its metrics
\* are live or degraded; a cycle that degrades to the cache does so before its
\* own save and takes the metrics of the file's last entry, that is, of the
\* most recent cycle whose save succeeded, unchanged
C35_DegradeReusesLastSaved ==
    /\ [][history' # history =>
              /\ pc = "Persisting" /\ saveOutcome' = "ok"
              /\ saves' = saves + 1
              /\ history' # <<>> /\ history'[Len(history')] = result[1]
          ]_vars
    /\ [][(pc = "Persisting" /\ pc' # "Persisting" /\ saveOutcome' = "ok") =>
              /\ history' # <<>> /\ history'[Len(history')] = result[1]
              /\ history'[Len(history')].risk = result[1].risk
          ]_vars
    /\ [][(riskSource' = "cached" /\ riskSource # "cached") =>
              /\ pc = "Computing" /\ saveOutcome = "none"
              /\ history' = history /\ history # <<>>
              /\ saves > 0
              /\ result'[1].risk = history[Len(history)].risk
          ]_vars
    /\ [](riskSource = "cached" =>
              history # <<>> /\ result[1].risk = history[Len(history)].risk)

\* the third cycle lost its historical prices like the second: it reuses what
\* the second stored, which are the concentration-only metrics of the first
C35_Witness ==
    /\ monitor.cycles = 3
    /\ pc = "Persisting"
    /\ historicalNotOk
    /\ riskSource = "cached"
    /\ Len(history) = 2
    /\ history[1].risk = concentrationOnly(history[1].valuation)
    /\ history[2].risk = history[1].risk
    /\ result[1].risk = history[2].risk
    /\ result[1].risk.valueAtRisk95 = Zero

====
